---- MODULE Spec2Model ----
(***************************************************************************)
(* The approx_percentile aggregation operator of                           *)
(* velox/functions/prestosql/aggregates/ApproxPercentileAggregate.cpp:     *)
(* the per-group accumulator (a KLL sketch plus the buffer of large-count  *)
(* values), the operator-scope percentiles_ / accuracy_, and the entry     *)
(* points addRawInput, addSingleGroupRawInput, addIntermediateResults,     *)
(* addSingleGroupIntermediateResults, extractValues, extractAccumulators.  *)
(*                                                                         *)
(* Doubles (percentiles, accuracies) are integers in units of 1/Scale.     *)
(* 64-bit counts and weights are three limbs <<a, b, c>> of base 2^20      *)
(* standing for a * 2^40 + b * 2^20 + c, with 0 <= b, c < 2^20.            *)
(* A thrown exception is the field err of the operator state: every step   *)
(* after the throw is skipped and the state keeps what was written before. *)
(***************************************************************************)
EXTENDS Integers, Sequences, FiniteSets, TLC

\* ------------------------------------------------------------------ bounds

\* Doubles are multiples of 1/Scale.
Scale == 2

\* Rows of one input batch (row numbers 0 .. NumRows - 1).
NumRows == 2

\* Input batches (raw or intermediate) one operator receives.
MaxSteps == 2

Groups == {"g1", "g2"}

Values == {1, 2}

\* ------------------------------------------------------- 64-bit arithmetic

Limb == 2 ^ 20

Big(a, b, c) == <<a, b, c>>

BigOf(n) == <<0, n \div Limb, n % Limb>>

Zero == BigOf(0)

One == BigOf(1)

BigAdd(x, y) ==
    LET c == x[3] + y[3]
        b == x[2] + y[2] + (c \div Limb)
    IN  <<x[1] + y[1] + (b \div Limb), b % Limb, c % Limb>>

BigLt(x, y) ==
    \/ x[1] < y[1]
    \/ x[1] = y[1] /\ x[2] < y[2]
    \/ x[1] = y[1] /\ x[2] = y[2] /\ x[3] < y[3]

BigLeq(x, y) == x = y \/ BigLt(x, y)

RECURSIVE BigSum(_)
BigSum(s) == IF s = <<>> THEN Zero ELSE BigAdd(Head(s), BigSum(Tail(s)))

\* -------------------------------------------------------------- KLL sketch
\* velox/functions/lib/KllSketch.h is not part of the sources at hand: the
\* sketch is the logical multiset it stands for (vals: value -> count), its
\* total count n, its parameter k and its finished flag.

kDefaultK == 200

\* k from the accuracy eps = a / Scale; the sketch's error is about 1.65 / k^0.9,
\* taken here to first order: ceil(1.65 / eps).
kFromEpsilon(a) == (165 * Scale + 100 * a - 1) \div (100 * a)

\* where a sketch takes its storage from: the operator's HashStringAllocator
\* (the arena shared by the groups) or std::allocator (the heap)
HashStringAllocator == "arena"

StdAllocator == "heap"

\* The items of level 0 are kept in their order (level0); the levels above
\* are always sorted and are part of vals only.
SketchNew(k, allocator) ==
    [k |-> k, n |-> Zero, vals |-> [v \in Values |-> Zero], level0 |-> <<>>,
     finished |-> FALSE, allocator |-> allocator]

SketchSetK(s, k) == [s EXCEPT !.k = k]

SketchInsert(s, v) ==
    [s EXCEPT !.n = BigAdd(@, One), !.vals[v] = BigAdd(@, One),
              !.level0 = Append(@, v), !.finished = FALSE]

\* insert(v), times in a row
SketchInsertRepeated(s, v, times) ==
    [s EXCEPT !.n = BigAdd(@, BigOf(times)), !.vals[v] = BigAdd(@, BigOf(times)),
              !.level0 = @ \o [j \in 1..times |-> v], !.finished = FALSE]

Min(a, b) == IF a <= b THEN a ELSE b

\* the two-way merge of two item sequences, smaller head first
RECURSIVE MergeItems(_, _)
MergeItems(a, b) ==
    IF a = <<>> THEN b
    ELSE IF b = <<>> THEN a
    ELSE IF Head(a) <= Head(b) THEN <<Head(a)>> \o MergeItems(Tail(a), b)
    ELSE <<Head(b)>> \o MergeItems(a, Tail(b))

\* the items in ascending order: place i holds the least value v with at least
\* i items not above v
SortItems(a) ==
    LET notAbove == [v \in Values |-> Cardinality({j \in 1..Len(a) : a[j] <= v})]
    IN  [i \in 1..Len(a) |->
            CHOOSE v \in Values :
                /\ notAbove[v] >= i
                /\ \A u \in Values : notAbove[u] >= i => v <= u]

\* merge / mergeViews of one sketch or view o = [k, n, vals, level0]
SketchMerge(s, o) ==
    IF o.n = Zero THEN s
    ELSE [s EXCEPT !.k = IF s.n = Zero THEN o.k ELSE Min(s.k, o.k),
                   !.n = BigAdd(@, o.n),
                   !.vals = [v \in Values |-> BigAdd(s.vals[v], o.vals[v])],
                   !.level0 = IF o.level0 = <<>> THEN @ ELSE MergeItems(@, o.level0)]

SketchToView(s) == [k |-> s.k, n |-> s.n, vals |-> s.vals, level0 |-> s.level0]

\* a range of non-empty sketches as the one view merged from them
RECURSIVE SketchJoin(_)
SketchJoin(sketches) ==
    IF Len(sketches) = 1 THEN SketchToView(sketches[1])
    ELSE LET left == SketchJoin(SubSeq(sketches, 1, Len(sketches) \div 2))
             right == SketchJoin(SubSeq(sketches, Len(sketches) \div 2 + 1, Len(sketches)))
         IN  [k |-> Min(left.k, right.k), n |-> BigAdd(left.n, right.n),
              vals |-> [v \in Values |-> BigAdd(left.vals[v], right.vals[v])],
              level0 |-> IF right.level0 = <<>> THEN left.level0
                         ELSE MergeItems(left.level0, right.level0)]

\* finish(): sorts level 0
SketchFinish(s) == [s EXCEPT !.level0 = SortItems(@), !.finished = TRUE]

\* bit i of the count is one copy of x at level i
SketchFromRepeatedValue(x, n, k, allocator) ==
    [k |-> k, n |-> n, vals |-> [v \in Values |-> IF v = x THEN n ELSE Zero],
     level0 |-> IF n[3] % 2 = 1 THEN <<x>> ELSE <<>>,
     finished |-> TRUE, allocator |-> allocator]

SketchFromView(v, allocator) ==
    [k |-> v.k, n |-> v.n, vals |-> v.vals, level0 |-> v.level0, finished |-> FALSE,
     allocator |-> allocator]

\* compact(): shrinks the storage to fit the levels; the items stay as they are
SketchCompact(s) == s

\* ------------------------------------------------- KllSketchAccumulator<T>

kMaxBufferSize == 4096

kMinCountToBuffer == 512

\* KllSketchAccumulator(allocator, fixedRandomSeed)
AccumulatorNew ==
    [sketch_ |-> SketchNew(kDefaultK, HashStringAllocator), largeCountValues_ |-> <<>>]

\* setAccuracy(value)
setAccuracy(acc, value) == [acc EXCEPT !.sketch_ = SketchSetK(@, kFromEpsilon(value))]

\* append(T value)
appendValue(acc, value) == [acc EXCEPT !.sketch_ = SketchInsert(@, value)]

\* the repeated-value sketches with the arena for allocator, whatever is asked
repeatedValueSketches_arena(acc, allocator) ==
    [i \in DOMAIN acc.largeCountValues_ |->
        SketchFromRepeatedValue(acc.largeCountValues_[i][1], acc.largeCountValues_[i][2],
                                acc.sketch_.k, HashStringAllocator)]

\* the vector sketches of mergeLargeCountValuesIntoSketch: one repeated-value
\* sketch per buffered pair, built with sketch_.k() and the allocator given
repeatedValueSketches(acc, allocator) ==
    [i \in DOMAIN acc.largeCountValues_ |->
        SketchFromRepeatedValue(acc.largeCountValues_[i][1], acc.largeCountValues_[i][2],
                                acc.sketch_.k, allocator)]

\* sketch.merge(folly::Range(sketches.begin(), sketches.end()))
mergeEntries(sketch, sketches) ==
    IF sketches = <<>> THEN sketch ELSE SketchMerge(sketch, SketchJoin(sketches))

\* mergeLargeCountValuesIntoSketch(allocator, sketch, fixedRandomSeed)
mergeLargeCountValuesIntoSketch(acc, allocator, sketch) ==
    IF acc.largeCountValues_ # <<>>
    THEN mergeEntries(sketch, repeatedValueSketches(acc, allocator))
    ELSE sketch

\* flush(allocator, fixedRandomSeed)
flush(acc) ==
    [sketch_ |-> SketchFinish(
                     mergeLargeCountValuesIntoSketch(acc, HashStringAllocator, acc.sketch_)),
     largeCountValues_ |-> <<>>]

\* the loop for (int i = 0; i < count; ++i) sketch_.insert(value), the count
\* below kMinCountToBuffer and so within one limb: rounds i to count - 1
insertLoop(sketch, value, i, count) ==
    IF BigLt(BigOf(i), count)
    THEN SketchInsertRepeated(sketch, value, count[3] - i)
    ELSE sketch

\* append(value, count) inserting the value once and never flushing
append_once(acc, value, count) ==
    IF BigLt(count, BigOf(kMinCountToBuffer))
    THEN [acc EXCEPT !.sketch_ = SketchInsert(@, value)]
    ELSE [acc EXCEPT !.largeCountValues_ = Append(@, <<value, count>>)]

\* append(value, count) flushing only once the buffer is past kMaxBufferSize
append_late(acc, value, count) ==
    IF BigLt(count, BigOf(kMinCountToBuffer))
    THEN [acc EXCEPT !.sketch_ = insertLoop(@, value, 0, count)]
    ELSE LET pushed == [acc EXCEPT !.largeCountValues_ = Append(@, <<value, count>>)]
         IN  IF Len(pushed.largeCountValues_) > kMaxBufferSize
             THEN flush(pushed)
             ELSE pushed

\* append(value, count) buffering the counts above kMinCountToBuffer only
append_above(acc, value, count) ==
    IF BigLeq(count, BigOf(kMinCountToBuffer))
    THEN [acc EXCEPT !.sketch_ = insertLoop(@, value, 0, count)]
    ELSE LET pushed == [acc EXCEPT !.largeCountValues_ = Append(@, <<value, count>>)]
         IN  IF Len(pushed.largeCountValues_) >= kMaxBufferSize
             THEN flush(pushed)
             ELSE pushed

\* append(T value, int64_t count, allocator, fixedRandomSeed)
append(acc, value, count) ==
    IF BigLt(count, BigOf(kMinCountToBuffer))
    THEN [acc EXCEPT !.sketch_ = insertLoop(@, value, 0, count)]
    ELSE LET pushed == [acc EXCEPT !.largeCountValues_ = Append(@, <<value, count>>)]
         IN  IF Len(pushed.largeCountValues_) >= kMaxBufferSize
             THEN flush(pushed)
             ELSE pushed

\* append(const KllView<T>& view)
appendView(acc, view) == [acc EXCEPT !.sketch_ = SketchMerge(@, view)]

\* append(views) merging the first view only
appendViews_first(acc, views) ==
    IF views = <<>> THEN acc ELSE appendView(acc, Head(views))

\* append(const std::vector<KllView<T>>& views)
RECURSIVE appendViews(_, _)
appendViews(acc, views) ==
    IF views = <<>> THEN acc
    ELSE appendViews(appendView(acc, Head(views)), Tail(views))

\* compact leaving the buffer out of the copy
compact_nobuffer(acc) ==
    SketchCompact(SketchFromView(SketchToView(acc.sketch_), StdAllocator))

\* compact(fixedRandomSeed): a copy of the sketch with the buffer merged in
compact(acc) ==
    SketchCompact(
        mergeLargeCountValuesIntoSketch(
            acc, StdAllocator, SketchFromView(SketchToView(acc.sketch_), StdAllocator)))

\* the allocators of the sketches one call of compact constructs: the copy and
\* the repeated-value sketches merged into it
compactAllocators(acc) ==
    {SketchFromView(SketchToView(acc.sketch_), StdAllocator).allocator}
        \cup (IF acc.largeCountValues_ # <<>>
              THEN {repeatedValueSketches(acc, StdAllocator)[i].allocator :
                        i \in DOMAIN acc.largeCountValues_}
              ELSE {})

\* getSketch().totalCount()
totalCount(acc) == acc.sketch_.n

\* ------------------------------------------------------------- checkWeight

kMaxWeight == Big(Limb - 1, Limb - 1, Limb - 1)

WeightErr == "weight must be in range"

NoErr == "none"

\* the range test with the upper bound off by one
weightInRange_upper(weight) == BigLeq(One, weight) /\ BigLeq(weight, BigAdd(kMaxWeight, One))

weightInRange(weight) == BigLeq(One, weight) /\ BigLeq(weight, kMaxWeight)

\* checkWeight(weight) on the operator state st
checkWeight(st, weight) ==
    IF st.err # NoErr \/ weightInRange(weight) THEN st
    ELSE [st EXCEPT !.err = WeightErr]

\* ------------------------------------------------ ApproxPercentileAggregate
\* The operator state st = [percentiles_, accuracy_, groups, err].
\* A vector cell is [null, val]; val under a null cell is the raw content of
\* the buffer, which the producer leaves unspecified.

kMissingNormalizedValue == -1 * Scale

PercentilesUnset == [set |-> FALSE, values |-> <<>>, isArray |-> FALSE]

ErrEmpty == "Percentile cannot be empty"

ErrNull == "Percentile cannot be null"

ErrRange == "Percentile must be between 0 and 1"

ErrConst == "Percentile argument must be constant for all input rows"

ErrAccNull == "Accuracy cannot be null"

ErrAccRange == "Accuracy must be between 0 and 1"

ErrAccConst == "Accuracy argument must be constant for all input rows"

ErrMalformed == "malformed intermediate input"

raise(st, msg) == IF st.err = NoErr THEN [st EXCEPT !.err = msg] ELSE st

\* rows.begin(): the first selected row
FirstRow(sel) == CHOOSE r \in sel : \A q \in sel : r <= q

\* the selected rows in ascending order, as applyToSelected visits them
RECURSIVE RowsFrom(_, _)
RowsFrom(sel, r) ==
    IF r >= NumRows THEN <<>>
    ELSE (IF r \in sel THEN <<r>> ELSE <<>>) \o RowsFrom(sel, r + 1)

SelectedRows(sel) == RowsFrom(sel, 0)

\* DecodedVector::isNullAt(i) / valueAt(i) on a sequence of cells, i from 0
isNullAt(cells, i) == cells[i + 1].null

valueAt(cells, i) == cells[i + 1].val

\* the first branch without the check against 1
RECURSIVE setPercentileLoop_upper(_, _, _, _, _)
setPercentileLoop_upper(st, percentiles, offset, len, i) ==
    IF i >= len \/ st.err # NoErr THEN st
    ELSE IF isNullAt(percentiles, i) THEN raise(st, ErrNull)
    ELSE LET value == valueAt(percentiles, offset + i)
         IN  IF ~(value >= 0) THEN raise(st, ErrRange)
             ELSE setPercentileLoop_upper(
                      [st EXCEPT !.percentiles_.values[i + 1] = value],
                      percentiles, offset, len, i + 1)

\* the first branch of checkSetPercentile(isArray, percentiles, offset, len):
\* percentiles_ is assigned len zeros, then filled value by value; a failed
\* check leaves what was written so far.
RECURSIVE setPercentileLoop(_, _, _, _, _)
setPercentileLoop(st, percentiles, offset, len, i) ==
    IF i >= len \/ st.err # NoErr THEN st
    ELSE IF isNullAt(percentiles, i) THEN raise(st, ErrNull)
    ELSE LET value == valueAt(percentiles, offset + i)
         IN  IF ~(value >= 0) THEN raise(st, ErrRange)
             ELSE IF ~(value <= Scale) THEN raise(st, ErrRange)
             ELSE setPercentileLoop(
                      [st EXCEPT !.percentiles_.values[i + 1] = value],
                      percentiles, offset, len, i + 1)

\* the second branch without the comparison of the values
comparePercentileLoop_skip(st, percentiles, offset, len, i) == st

\* the second branch: compare with the resolved percentiles_
RECURSIVE comparePercentileLoop(_, _, _, _, _)
comparePercentileLoop(st, percentiles, offset, len, i) ==
    IF i >= len \/ st.err # NoErr THEN st
    ELSE IF valueAt(percentiles, offset + i) # st.percentiles_.values[i + 1]
         THEN raise(st, ErrConst)
         ELSE comparePercentileLoop(st, percentiles, offset, len, i + 1)

\* checkSetPercentile(bool isArray, const DecodedVector& percentiles, offset, len)
checkSetPercentileImpl(st, isArray, percentiles, offset, len) ==
    IF st.err # NoErr THEN st
    ELSE IF ~st.percentiles_.set
    THEN IF ~(len > 0) THEN raise(st, ErrEmpty)
         ELSE setPercentileLoop(
                  [st EXCEPT !.percentiles_ =
                      [set |-> TRUE, values |-> [i \in 1..len |-> 0], isArray |-> isArray]],
                  percentiles, offset, len, 0)
    ELSE IF isArray # st.percentiles_.isArray THEN raise(st, ErrConst)
    ELSE IF len # Len(st.percentiles_.values) THEN raise(st, ErrConst)
    ELSE comparePercentileLoop(st, percentiles, offset, len, 0)

\* A percentile argument vector vec = [kind, const, cells, rowNull, off, size]:
\* kind "double": cells[row + 1] is the row's value; kind "array": cells is the
\* elements vector and row r is the slice off[r + 1], size[r + 1] of it, null
\* when rowNull[r + 1]. const: the decoded mapping is constant.
vecNullAt(vec, row) ==
    IF vec.kind = "double" THEN vec.cells[row + 1].null ELSE vec.rowNull[row + 1]

cellEq(a, b) == IF a.null \/ b.null THEN a.null = b.null ELSE a.val = b.val

\* BaseVector::equalValueAt(base, baseRow, baseFirstRow)
equalValueAt(vec, r, q) ==
    IF vec.kind = "double" THEN cellEq(vec.cells[r + 1], vec.cells[q + 1])
    ELSE /\ vec.rowNull[r + 1] = vec.rowNull[q + 1]
         /\ \/ vec.rowNull[r + 1]
            \/ /\ vec.size[r + 1] = vec.size[q + 1]
               /\ \A i \in 1..vec.size[r + 1] :
                      cellEq(vec.cells[vec.off[r + 1] + i], vec.cells[vec.off[q + 1] + i])

\* the loop of checkSetPercentile(rows, vec) over the selected rows
RECURSIVE constantRowsLoop(_, _, _, _)
constantRowsLoop(st, vec, rows, first) ==
    IF rows = <<>> \/ st.err # NoErr THEN st
    ELSE IF vecNullAt(vec, Head(rows)) THEN raise(st, ErrNull)
    ELSE IF ~equalValueAt(vec, Head(rows), first) THEN raise(st, ErrConst)
    ELSE constantRowsLoop(st, vec, Tail(rows), first)

\* checkSetPercentile(const SelectivityVector& rows, const BaseVector& vec)
checkSetPercentile(st, sel, vec) ==
    LET first == FirstRow(sel)
        st1 == IF ~vec.const THEN constantRowsLoop(st, vec, SelectedRows(sel), first)
               ELSE st
    IN  IF vec.kind = "double"
        THEN checkSetPercentileImpl(st1, FALSE, vec.cells, first, 1)
        ELSE checkSetPercentileImpl(st1, TRUE, vec.cells, vec.off[first + 1], vec.size[first + 1])

\* checkSetAccuracy(double) assigning accuracy_ whenever the value is in range
checkSetAccuracyValue_overwrite(st, accuracy) ==
    IF st.err # NoErr THEN st
    ELSE IF ~(0 < accuracy /\ accuracy <= Scale) THEN raise(st, ErrAccRange)
    ELSE [st EXCEPT !.accuracy_ = accuracy]

\* checkSetAccuracy(double accuracy)
checkSetAccuracyValue(st, accuracy) ==
    IF st.err # NoErr THEN st
    ELSE IF ~(0 < accuracy /\ accuracy <= Scale) THEN raise(st, ErrAccRange)
    ELSE IF st.accuracy_ = kMissingNormalizedValue THEN [st EXCEPT !.accuracy_ = accuracy]
    ELSE IF accuracy # st.accuracy_ THEN raise(st, ErrAccConst)
    ELSE st

\* the loop of checkSetAccuracy(rows) over the selected rows
RECURSIVE accuracyRowsLoop(_, _, _)
accuracyRowsLoop(st, cells, rows) ==
    IF rows = <<>> \/ st.err # NoErr THEN st
    ELSE IF isNullAt(cells, Head(rows)) THEN raise(st, ErrAccNull)
    ELSE LET accuracy == valueAt(cells, Head(rows))
             st1 == IF st.accuracy_ = kMissingNormalizedValue
                    THEN checkSetAccuracyValue(st, accuracy) ELSE st
             st2 == IF st1.err = NoErr /\ accuracy # st1.accuracy_
                    THEN raise(st1, ErrAccConst) ELSE st1
         IN  accuracyRowsLoop(st2, cells, Tail(rows))

\* checkSetAccuracy(const SelectivityVector& rows); acc = [const, cells]
checkSetAccuracy(st, hasAccuracy, sel, acc) ==
    IF st.err # NoErr \/ ~hasAccuracy THEN st
    ELSE IF acc.const
    THEN IF isNullAt(acc.cells, 0) THEN raise(st, ErrAccNull)
         ELSE checkSetAccuracyValue(st, valueAt(acc.cells, 0))
    ELSE accuracyRowsLoop(st, acc.cells, SelectedRows(sel))

\* decodeArguments(rows, args); batch = [sel, rows, pct, acc]
decodeArguments(st, hasAccuracy, batch) ==
    LET st1 == checkSetPercentile(st, batch.sel, batch.pct)
    IN  IF hasAccuracy THEN checkSetAccuracy(st1, hasAccuracy, batch.sel, batch.acc)
        ELSE st1

\* the calls of setAccuracy a group has had: how many, whether one came when the
\* accumulator held something, whether one raised the sketch's k
NoCalls == [calls |-> 0, withItems |-> FALSE, raised |-> FALSE]

Called(calls, before, after) ==
    [calls |-> calls.calls + 1,
     withItems |-> calls.withItems \/ totalCount(before) # Zero
                                    \/ before.largeCountValues_ # <<>>,
     raised |-> calls.raised \/ after.sketch_.k > before.sketch_.k]

\* initRawAccumulator(group)
initRawAccumulator(st, g) ==
    IF st.accuracy_ # kMissingNormalizedValue
    THEN [st EXCEPT !.groups[g] = setAccuracy(@, st.accuracy_),
                    !.setAccuracy[g] =
                        Called(@, st.groups[g], setAccuracy(st.groups[g], st.accuracy_))]
    ELSE st

\* the row lambdas taking a row whose value is null
RECURSIVE rawRowsLoop_nullvalue(_, _, _, _, _)
rawRowsLoop_nullvalue(st, hasWeight, perGroup, batch, rows) ==
    IF rows = <<>> \/ st.err # NoErr THEN st
    ELSE LET row == batch.rows[Head(rows) + 1]
         IN  IF hasWeight /\ row.weight.null
             THEN rawRowsLoop_nullvalue(st, hasWeight, perGroup, batch, Tail(rows))
             ELSE LET st1 == IF perGroup THEN initRawAccumulator(st, row.group) ELSE st
                      st2 == IF hasWeight THEN checkWeight(st1, row.weight.val) ELSE st1
                      st3 == IF st2.err # NoErr THEN st2
                             ELSE IF hasWeight
                             THEN [st2 EXCEPT !.groups[row.group] =
                                      append(@, row.value.val, row.weight.val)]
                             ELSE [st2 EXCEPT !.groups[row.group] =
                                      appendValue(@, row.value.val)]
                  IN  rawRowsLoop_nullvalue(st3, hasWeight, perGroup, batch, Tail(rows))

\* the row lambdas of addRawInput (perGroup) and addSingleGroupRawInput
RECURSIVE rawRowsLoop(_, _, _, _, _)
rawRowsLoop(st, hasWeight, perGroup, batch, rows) ==
    IF rows = <<>> \/ st.err # NoErr THEN st
    ELSE LET row == batch.rows[Head(rows) + 1]
         IN  IF row.value.null \/ (hasWeight /\ row.weight.null)
             THEN rawRowsLoop(st, hasWeight, perGroup, batch, Tail(rows))
             ELSE LET st1 == IF perGroup THEN initRawAccumulator(st, row.group) ELSE st
                      st2 == IF hasWeight THEN checkWeight(st1, row.weight.val) ELSE st1
                      st3 == IF st2.err # NoErr THEN st2
                             ELSE IF hasWeight
                             THEN [st2 EXCEPT !.groups[row.group] =
                                      append(@, row.value.val, row.weight.val)]
                             ELSE [st2 EXCEPT !.groups[row.group] =
                                      appendValue(@, row.value.val)]
                  IN  rawRowsLoop(st3, hasWeight, perGroup, batch, Tail(rows))

\* addRawInput appending the rows before the arguments are decoded and checked
addRawInput_late(st, hasWeight, hasAccuracy, batch) ==
    LET st1 == rawRowsLoop(st, hasWeight, TRUE, batch, SelectedRows(batch.sel))
    IN  decodeArguments(st1, hasAccuracy, batch)

\* addRawInput(groups, rows, args, mayPushdown)
addRawInput(st, hasWeight, hasAccuracy, batch) ==
    LET st1 == decodeArguments(st, hasAccuracy, batch)
    IN  rawRowsLoop(st1, hasWeight, TRUE, batch, SelectedRows(batch.sel))

\* every row of the batch goes to group g
ToGroup(batch, g) ==
    [batch EXCEPT !.rows = [i \in DOMAIN batch.rows |-> [batch.rows[i] EXCEPT !.group = g]]]

\* addSingleGroupRawInput without the call of initRawAccumulator on its group
addSingleGroupRawInput_noinit(st, hasWeight, hasAccuracy, g, batch) ==
    LET st1 == decodeArguments(st, hasAccuracy, batch)
    IN  rawRowsLoop(st1, hasWeight, FALSE, ToGroup(batch, g), SelectedRows(batch.sel))

\* addSingleGroupRawInput(group, rows, args, mayPushdown)
addSingleGroupRawInput(st, hasWeight, hasAccuracy, g, batch) ==
    LET st1 == decodeArguments(st, hasAccuracy, batch)
        st2 == IF st1.err # NoErr THEN st1 ELSE initRawAccumulator(st1, g)
    IN  rawRowsLoop(st2, hasWeight, FALSE, ToGroup(batch, g), SelectedRows(batch.sel))

\* One row of an intermediate batch: [rowNull, group, isArrayNull, isArray,
\* pctNull, off, size, acc, fieldsNull, view]; the batch is [sel, constEnc,
\* pctCells, rows], pctCells the elements of the percentiles column and
\* constEnc whether the three query-scope columns are constant-encoded.

\* the row lambda of addIntermediateImpl skipping the null rows only, not those
\* whose percentilesIsArray is null
intermediateRow_nullrow(loop, validate, kSingleGroup, g, batch, r) ==
    LET row == batch.rows[r + 1]
        st == loop.st
        group == IF kSingleGroup THEN g ELSE row.group
    IN  IF row.rowNull THEN loop
        ELSE LET st1 == IF loop.accumulator THEN st
                        ELSE IF validate /\ row.pctNull THEN raise(st, ErrMalformed)
                        ELSE LET s1 == checkSetPercentileImpl(
                                           st, row.isArray, batch.pctCells, row.off, row.size)
                             IN  IF ~row.acc.null THEN checkSetAccuracyValue(s1, row.acc.val)
                                 ELSE s1
                 st2 == IF st1.err # NoErr THEN st1
                        ELSE IF kSingleGroup /\ loop.accumulator THEN st1
                        ELSE initRawAccumulator(st1, group)
                 st3 == IF st2.err = NoErr /\ validate /\ row.fieldsNull
                        THEN raise(st2, ErrMalformed) ELSE st2
             IN  IF st3.err # NoErr THEN [loop EXCEPT !.st = st3]
                 ELSE IF kSingleGroup
                 THEN [st |-> st3, accumulator |-> TRUE, views |-> Append(loop.views, row.view)]
                 ELSE [st |-> [st3 EXCEPT !.groups[group] = appendView(@, row.view)],
                       accumulator |-> TRUE, views |-> loop.views]

\* the body of the row lambda of addIntermediateImpl; loop = [st, accumulator, views]
intermediateRow(loop, validate, kSingleGroup, g, batch, r) ==
    LET row == batch.rows[r + 1]
        st == loop.st
        group == IF kSingleGroup THEN g ELSE row.group
    IN  IF row.rowNull \/ row.isArrayNull THEN loop
        ELSE LET st1 == IF loop.accumulator THEN st
                        ELSE IF validate /\ row.pctNull THEN raise(st, ErrMalformed)
                        ELSE LET s1 == checkSetPercentileImpl(
                                           st, row.isArray, batch.pctCells, row.off, row.size)
                             IN  IF ~row.acc.null THEN checkSetAccuracyValue(s1, row.acc.val)
                                 ELSE s1
                 st2 == IF st1.err # NoErr THEN st1
                        ELSE IF kSingleGroup /\ loop.accumulator THEN st1
                        ELSE initRawAccumulator(st1, group)
                 st3 == IF st2.err = NoErr /\ validate /\ row.fieldsNull
                        THEN raise(st2, ErrMalformed) ELSE st2
             IN  IF st3.err # NoErr THEN [loop EXCEPT !.st = st3]
                 ELSE IF kSingleGroup
                 THEN [st |-> st3, accumulator |-> TRUE, views |-> Append(loop.views, row.view)]
                 ELSE [st |-> [st3 EXCEPT !.groups[group] = appendView(@, row.view)],
                       accumulator |-> TRUE, views |-> loop.views]

RECURSIVE intermediateRowsLoop(_, _, _, _, _, _)
intermediateRowsLoop(loop, validate, kSingleGroup, g, batch, rows) ==
    IF rows = <<>> \/ loop.st.err # NoErr THEN loop
    ELSE intermediateRowsLoop(
             intermediateRow(loop, validate, kSingleGroup, g, batch, Head(rows)),
             validate, kSingleGroup, g, batch, Tail(rows))

\* addIntermediateImpl<kSingleGroup, checkIntermediateInputs>(group, rows, args)
addIntermediateImpl(st, validate, kSingleGroup, g, batch) ==
    IF validate /\ ~batch.constEnc THEN raise(st, ErrMalformed)
    ELSE LET loop == intermediateRowsLoop(
                         [st |-> st, accumulator |-> FALSE, views |-> <<>>],
                         validate, kSingleGroup, g, batch, SelectedRows(batch.sel))
         IN  IF loop.st.err = NoErr /\ kSingleGroup /\ loop.views # <<>>
             THEN [loop.st EXCEPT !.groups[g] = appendViews(@, loop.views)]
             ELSE loop.st

\* ----------------------------------------------------------------- outputs

\* extractValues without the flush of the groups
flushListed_none(groups, glist) == groups

\* extractValues flushing the first group only
flushListed_first(groups, glist) ==
    IF glist = <<>> THEN groups ELSE [groups EXCEPT ![Head(glist)] = flush(@)]

RECURSIVE flushListed(_, _)
flushListed(groups, glist) ==
    IF glist = <<>> THEN groups
    ELSE flushListed([groups EXCEPT ![Head(glist)] = flush(@)], Tail(glist))

\* a row of the result on which the lambda was not called
NullRow ==
    [null |-> TRUE, offset |-> 0, size |-> 0, estimated |-> FALSE, finished |-> FALSE,
     buffered |-> 0]

\* a row of the result for which the lambda estimated on the accumulator's
\* sketch: the row remembers whether the sketch was finished and how many
\* pairs the buffer held at the call
EstimatedRow(accumulator, offset, size) ==
    [null |-> FALSE, offset |-> offset, size |-> size, estimated |-> TRUE,
     finished |-> accumulator.sketch_.finished,
     buffered |-> Len(accumulator.largeCountValues_)]

\* a place of the elements vector nothing was written to
Unset == [group |-> "none", percentile |-> 0]

\* arrayResult->elements()->resize(elementsCount)
resizeElements(elementsCount) ==
    [cells |-> [p \in 1..elementsCount |-> Unset], overrun |-> FALSE]

\* digest.estimateQuantiles(percentiles, rawValues + elementsCount): one
\* estimate per percentile, in their order, written from that place on; a write
\* past the end of the vector is noted
estimateQuantiles(elements, group, percentiles, elementsCount) ==
    [cells |-> [p \in 1..Len(elements.cells) |->
                   IF p > elementsCount /\ p <= elementsCount + Len(percentiles)
                   THEN [group |-> group, percentile |-> percentiles[p - elementsCount]]
                   ELSE elements.cells[p]],
     overrun |-> elements.overrun \/ elementsCount + Len(percentiles) > Len(elements.cells)]

\* the first loop of the array branch: the size the elements vector is given,
\* counting the groups of total count 0 as well
countElements_every(groups, glist, size) == Len(glist) * size

\* the first loop of the array branch: the size the elements vector is given
RECURSIVE countElements(_, _, _)
countElements(groups, glist, size) ==
    IF glist = <<>> THEN 0
    ELSE (IF totalCount(groups[Head(glist)]) # Zero THEN size ELSE 0)
         + countElements(groups, Tail(glist), size)

\* extract(groups, numGroups, result, extractFunction) with the array lambda of
\* extractValues: a null row for a group of total count 0, else the next
\* percentiles.size() elements. res = [rows, elementsCount, elements]
RECURSIVE extractArrayRows(_, _, _, _)
extractArrayRows(groups, glist, percentiles, res) ==
    IF glist = <<>> THEN res
    ELSE LET accumulator == groups[Head(glist)]
         IN  IF totalCount(accumulator) = Zero
             THEN extractArrayRows(groups, Tail(glist), percentiles,
                      [res EXCEPT !.rows = Append(@, NullRow)])
             ELSE extractArrayRows(groups, Tail(glist), percentiles,
                      [rows |-> Append(res.rows,
                                    EstimatedRow(accumulator, res.elementsCount,
                                                 Len(percentiles))),
                       elements |-> estimateQuantiles(res.elements, Head(glist),
                                                      percentiles, res.elementsCount),
                       elementsCount |-> res.elementsCount + Len(percentiles)])

\* extract(...) with the scalar lambda of extractValues
extractScalarRows(groups, glist) ==
    [i \in 1..Len(glist) |->
        IF totalCount(groups[glist[i]]) = Zero THEN NullRow
        ELSE EstimatedRow(groups[glist[i]], 0, 0)]

\* extractValues(groups, numGroups, result): the new operator state and the result
extractValues(st, glist) ==
    LET flushed == flushListed(st.groups, glist)
        st1 == [st EXCEPT !.groups = flushed]
    IN  IF ~st.percentiles_.set
        THEN [st |-> st1,
              out |-> [op |-> "extractValues", nullConstant |-> TRUE, isArray |-> FALSE,
                       rows |-> [i \in 1..Len(glist) |-> NullRow],
                       elements |-> resizeElements(0)]]
        ELSE IF st.percentiles_.isArray
        THEN LET percentiles == st.percentiles_.values
                 elementsCount == countElements(flushed, glist, Len(percentiles))
                 res == extractArrayRows(flushed, glist, percentiles,
                            [rows |-> <<>>, elementsCount |-> 0,
                             elements |-> resizeElements(elementsCount)])
             IN  [st |-> st1,
                  out |-> [op |-> "extractValues", nullConstant |-> FALSE, isArray |-> TRUE,
                           rows |-> res.rows, elements |-> res.elements]]
        ELSE [st |-> st1,
              out |-> [op |-> "extractValues", nullConstant |-> FALSE, isArray |-> FALSE,
                       rows |-> extractScalarRows(flushed, glist),
                       elements |-> resizeElements(0)]]

\* a constant vector that is never null
ConstantVector_nonnull(size, isNull, value) == [size |-> size, null |-> FALSE, val |-> value]

\* a ConstantVector of the given size
ConstantVector(size, isNull, value) == [size |-> size, null |-> isNull, val |-> value]

\* extractAccumulators(groups, numGroups, result): the state is left alone; the
\* fields of a null row keep whatever the result vector held (zeros here).
\* allocators: where the sketches made by the calls of compact took storage.
extractAccumulators(st, glist) ==
    LET sketches == [i \in 1..Len(glist) |-> compact(st.groups[glist[i]])]
        numGroups == Len(glist)
        allocators == UNION {compactAllocators(st.groups[glist[i]]) : i \in 1..numGroups}
    IN  IF ~st.percentiles_.set
        THEN [op |-> "extractAccumulators",
              percentiles |-> ConstantVector(numGroups, TRUE, <<>>),
              percentilesIsArray |-> ConstantVector(numGroups, TRUE, FALSE),
              accuracy |-> ConstantVector(numGroups, TRUE, 0),
              rows |-> [i \in 1..numGroups |->
                           [null |-> TRUE, k |-> 0, n |-> Zero,
                            vals |-> [v \in Values |-> Zero], level0 |-> <<>>]],
              allocators |-> allocators]
        ELSE [op |-> "extractAccumulators",
              percentiles |-> ConstantVector(numGroups, FALSE, st.percentiles_.values),
              percentilesIsArray |-> ConstantVector(numGroups, FALSE, st.percentiles_.isArray),
              accuracy |-> ConstantVector(numGroups, st.accuracy_ = kMissingNormalizedValue,
                                          st.accuracy_),
              rows |-> [i \in 1..numGroups |->
                           LET v == SketchToView(sketches[i])
                           IN  IF v.n = Zero
                               THEN [null |-> TRUE, k |-> 0, n |-> Zero,
                                     vals |-> [x \in Values |-> Zero], level0 |-> <<>>]
                               ELSE [null |-> FALSE, k |-> v.k, n |-> v.n, vals |-> v.vals,
                                     level0 |-> v.level0]],
              allocators |-> allocators]

\* ------------------------------------------------------------------ inputs

Cell(isNull, val) == [null |-> isNull, val |-> val]

RowIds == 0..(NumRows - 1)

\* the selections of a batch: every row, or every row but the first
Selections == {RowIds, RowIds \ {0}}

\* a column whose row 0 holds a and whose other rows hold b
Column(a, b) == [i \in 1..NumRows |-> IF i = 1 THEN a ELSE b]

PVals == {0, Scale, Scale + 1}

ScalarCells == {Cell(FALSE, v) : v \in PVals} \cup {Cell(TRUE, 0)}

ElemCells ==
    {Cell(FALSE, 0), Cell(FALSE, Scale), Cell(FALSE, Scale + 1), Cell(TRUE, 0), Cell(TRUE, Scale + 1)}

ScalarVec(const, a, b) ==
    [kind |-> "double", const |-> const, cells |-> Column(a, b),
     rowNull |-> Column(FALSE, FALSE), off |-> Column(0, 0), size |-> Column(0, 0)]

ArrayVec(const, elems, nullA, nullB, sliceA, sliceB) ==
    [kind |-> "array", const |-> const, cells |-> elems,
     rowNull |-> Column(nullA, nullB),
     off |-> Column(sliceA[1], sliceB[1]), size |-> Column(sliceA[2], sliceB[2])]

\* the elements vectors, and the slices <<offset, size>> of them that matter
ElemVectors == {<<a, b>> : a \in ElemCells, b \in ElemCells}

PlainElems == <<Cell(FALSE, 0), Cell(FALSE, Scale)>>

ConstArrays ==
    {<<PlainElems, <<0, 0>>>>}
    \cup {<<e, <<0, 1>>>> : e \in {e \in ElemVectors : e[2] = Cell(FALSE, Scale)}}
    \cup {<<e, s>> : e \in ElemVectors, s \in {<<1, 1>>, <<0, 2>>}}

RowSlices == {<<0, 1>>, <<1, 1>>, <<0, 2>>}

RowElems ==
    {PlainElems, <<Cell(FALSE, 0), Cell(FALSE, 0)>>,
     <<Cell(TRUE, 0), Cell(FALSE, 0)>>, <<Cell(FALSE, 0), Cell(TRUE, 0)>>}

\* the percentile argument vectors of constant mapping
ConstPctVectors ==
    {ScalarVec(TRUE, a, a) : a \in ScalarCells \cup {Cell(FALSE, -1)}}
    \cup {ArrayVec(TRUE, c[1], FALSE, FALSE, c[2], c[2]) : c \in ConstArrays}

\* the percentile argument vectors decoded row by row
RowPctVectors ==
    {ScalarVec(FALSE, a, b) : a \in ScalarCells, b \in ScalarCells}
    \cup {ArrayVec(FALSE, e, FALSE, FALSE, s, t) :
              e \in RowElems, s \in RowSlices, t \in RowSlices}
    \cup {ArrayVec(FALSE, PlainElems, n, ~n, <<0, 1>>, <<0, 1>>) : n \in BOOLEAN}

PctSimple == ScalarVec(TRUE, Cell(FALSE, 0), Cell(FALSE, 0))

AccCells == {Cell(FALSE, v) : v \in {1, Scale, Scale + 1}} \cup {Cell(TRUE, 0)}

AccVec(const, a, b) == [const |-> const, cells |-> Column(a, b)]

ConstAccVectors == {AccVec(TRUE, a, a) : a \in AccCells \cup {Cell(FALSE, 0)}}

RowAccVectors == {AccVec(FALSE, a, b) : a \in AccCells, b \in AccCells}

AccSimple == AccVec(TRUE, Cell(FALSE, Scale), Cell(FALSE, Scale))

WeightCells ==
    {Cell(TRUE, Zero), Cell(FALSE, Zero), Cell(FALSE, One), Cell(FALSE, BigOf(kMinCountToBuffer)),
     Cell(FALSE, kMaxWeight), Cell(FALSE, BigAdd(kMaxWeight, One))}

LaterWeightCells ==
    {Cell(FALSE, BigOf(2)), Cell(FALSE, BigOf(kMinCountToBuffer)),
     Cell(FALSE, BigAdd(kMaxWeight, One))}

RawRow(g, value, weight) == [group |-> g, value |-> value, weight |-> weight]

\* the first row of a raw batch: a value with any weight, or a null value
\* with a weight in or out of range
FirstRawRows(hasWeight) ==
    IF hasWeight
    THEN {RawRow("g1", Cell(FALSE, 1), w) : w \in WeightCells}
         \cup {RawRow("g1", Cell(TRUE, 1), w) : w \in {Cell(FALSE, Zero), Cell(FALSE, One)}}
    ELSE {RawRow("g1", Cell(n, 1), Cell(TRUE, Zero)) : n \in BOOLEAN}

\* the later rows of a raw batch, of group g
LaterRawRows(g, hasWeight) ==
    IF hasWeight
    THEN {RawRow(g, Cell(FALSE, 2), w) : w \in LaterWeightCells}
         \cup {RawRow(g, Cell(TRUE, 2), Cell(FALSE, Zero))}
    ELSE {RawRow(g, Cell(n, 2), Cell(TRUE, Zero)) : n \in BOOLEAN}

RawBatch(sel, rows, pct, acc) == [sel |-> sel, rows |-> rows, pct |-> pct, acc |-> acc]

PlainRows == Column(RawRow("g1", Cell(FALSE, 1), Cell(FALSE, One)),
                    RawRow("g2", Cell(FALSE, 2), Cell(FALSE, One)))

\* raw batches with arguments of every kind over plain rows
ArgumentBatches(hasAccuracy) ==
    {RawBatch(RowIds, PlainRows, pct, AccSimple) : pct \in ConstPctVectors}
    \cup {RawBatch(sel, PlainRows, pct, AccSimple) : sel \in Selections, pct \in RowPctVectors}
    \cup (IF hasAccuracy
          THEN {RawBatch(RowIds, PlainRows, PctSimple, acc) : acc \in ConstAccVectors}
               \cup {RawBatch(sel, PlainRows, PctSimple, acc) :
                         sel \in Selections, acc \in RowAccVectors}
          ELSE {})

\* raw batches with rows of every kind under plain arguments, the later rows
\* of a group of gs
RowBatches(hasWeight, gs) ==
    {RawBatch(sel, Column(a, b), PctSimple, AccSimple) :
         sel \in Selections, a \in FirstRawRows(hasWeight),
         b \in UNION {LaterRawRows(g, hasWeight) : g \in gs}}

\* the sketch views of intermediate rows
View(k, n, vals, level0) == [k |-> k, n |-> n, vals |-> vals, level0 |-> level0]

EmptyView == View(kDefaultK, Zero, [v \in Values |-> Zero], <<>>)

OneView == View(kDefaultK, One, [v \in Values |-> IF v = 1 THEN One ELSE Zero], <<1>>)

TwoView ==
    View(kFromEpsilon(Scale), BigOf(2), [v \in Values |-> IF v <= 2 THEN One ELSE Zero],
         <<1, 2>>)

IntRow(g, rowNull, isArrayNull, isArray, pctNull, slice, acc, fieldsNull, view) ==
    [rowNull |-> rowNull, group |-> g, isArrayNull |-> isArrayNull, isArray |-> isArray,
     pctNull |-> pctNull, off |-> slice[1], size |-> slice[2], acc |-> acc,
     fieldsNull |-> fieldsNull, view |-> view]

IntBatch(sel, constEnc, pctCells, rows) ==
    [sel |-> sel, constEnc |-> constEnc, pctCells |-> pctCells, rows |-> rows]

\* a row of view v under arguments args = <<isArrayNull, isArray, pctNull, slice, acc>>
ArgRow(g, args, v) ==
    IntRow(g, FALSE, args[1], args[2], args[3], args[4], args[5], FALSE, v)

NullCell == Cell(TRUE, 0)

\* constant-encoded query-scope columns of every kind over plain rows
IntArgumentBatches ==
    {IntBatch(RowIds, TRUE, c[1],
              Column(ArgRow("g1", <<FALSE, a, FALSE, c[2], NullCell>>, OneView),
                     ArgRow("g2", <<FALSE, a, FALSE, c[2], NullCell>>, TwoView))) :
         c \in ConstArrays, a \in BOOLEAN}
    \cup {IntBatch(RowIds, TRUE, PlainElems,
                   Column(ArgRow("g1", <<n, FALSE, p, <<0, 1>>, NullCell>>, OneView),
                          ArgRow("g2", <<n, FALSE, p, <<0, 1>>, NullCell>>, TwoView))) :
              n \in BOOLEAN, p \in BOOLEAN}
    \cup {IntBatch(RowIds, TRUE, PlainElems,
                   Column(ArgRow("g1", <<FALSE, FALSE, FALSE, <<0, 1>>, acc>>, OneView),
                          ArgRow("g2", <<FALSE, FALSE, FALSE, <<0, 1>>, acc>>, TwoView))) :
              acc \in AccCells \cup {Cell(FALSE, 0)}}

FirstIntRows ==
    {IntRow("g1", FALSE, FALSE, FALSE, FALSE, <<0, 1>>, NullCell, FALSE, v) :
         v \in {EmptyView, OneView, TwoView}}
    \cup {IntRow("g1", n, FALSE, FALSE, FALSE, <<0, 1>>, NullCell, ~n, OneView) : n \in BOOLEAN}

LaterIntRows(g) ==
    {IntRow(g, FALSE, FALSE, FALSE, FALSE, <<0, 1>>, NullCell, FALSE, v) :
         v \in {OneView, TwoView}}
    \cup {IntRow(g, TRUE, FALSE, FALSE, FALSE, <<0, 1>>, NullCell, FALSE, TwoView)}

\* rows of every kind under plain constant-encoded columns
IntRowBatches(gs) ==
    {IntBatch(sel, TRUE, PlainElems, Column(a, b)) :
         sel \in Selections,
         a \in FirstIntRows,
         b \in UNION {LaterIntRows(g) : g \in gs}}

RowArgs ==
    {<<TRUE, FALSE, FALSE, <<0, 1>>, NullCell>>}
    \cup {<<FALSE, a, FALSE, s, NullCell>> : a \in BOOLEAN, s \in {<<0, 1>>, <<1, 1>>}}

\* query-scope columns that are not constant-encoded: each row has its own
IntMixedBatches ==
    {IntBatch(sel, FALSE, PlainElems,
              Column(ArgRow("g1", a, OneView), ArgRow("g2", [b EXCEPT ![5] = acc], TwoView))) :
         sel \in Selections, a \in RowArgs, b \in RowArgs,
         acc \in {NullCell, Cell(FALSE, Scale)}}

\* the group lists extractValues and extractAccumulators are given
GroupLists == {<<"g1", "g2">>, <<"g2", "g1">>, <<"g2">>}

\* --------------------------------------------- what a batch holds (facts)
\* Stated from the rows themselves, for the properties below.

ValidWeight(w) ==
    /\ w[1] >= 0
    /\ w # Zero
    /\ w[1] < Limb

Skipped(hasWeight, row) == row.value.null \/ (hasWeight /\ row.weight.null)

BadWeightRows(hasWeight, batch) ==
    {r \in batch.sel : /\ hasWeight
                       /\ ~Skipped(hasWeight, batch.rows[r + 1])
                       /\ ~ValidWeight(batch.rows[r + 1].weight.val)}

\* the rows whose value the handler appends: those not skipped, before the
\* first row with a weight out of range
AppendedRows(hasWeight, batch) ==
    {r \in batch.sel : /\ ~Skipped(hasWeight, batch.rows[r + 1])
                       /\ \A q \in BadWeightRows(hasWeight, batch) : r < q}

RECURSIVE SumOver(_, _)
SumOver(f, S) ==
    IF S = {} THEN Zero
    ELSE LET x == CHOOSE y \in S : TRUE
         IN  BigAdd(f[x], SumOver(f, S \ {x}))

\* what a raw batch adds to group g when its arguments pass
RawAdded(hasWeight, batch, g) ==
    SumOver([r \in RowIds |-> IF hasWeight THEN batch.rows[r + 1].weight.val ELSE One],
            {r \in AppendedRows(hasWeight, batch) : batch.rows[r + 1].group = g})

\* the percentile argument of row r of a raw batch, as a value
RawPct(vec, r) ==
    IF vec.kind = "double"
    THEN [isArray |-> FALSE, null |-> vec.cells[r + 1].null, cells |-> <<vec.cells[r + 1]>>]
    ELSE [isArray |-> TRUE, null |-> vec.rowNull[r + 1],
          cells |-> [i \in 1..vec.size[r + 1] |-> vec.cells[vec.off[r + 1] + i]]]

HasNullElem(p) == \E i \in 1..Len(p.cells) : p.cells[i].null

OutOfRange(p) ==
    \E i \in 1..Len(p.cells) : ~p.cells[i].null /\ (p.cells[i].val < 0 \/ p.cells[i].val > Scale)

WellFormed(p) == ~p.null /\ ~HasNullElem(p) /\ ~OutOfRange(p) /\ Len(p.cells) > 0

PctValues(p) == [i \in 1..Len(p.cells) |-> p.cells[i].val]

PctValue(p) == [isArray |-> p.isArray, values |-> PctValues(p)]

\* what percentile arguments ps hold (one per row taken into account, in row
\* order), whatever the operator has resolved
PctDigest(ps) ==
    [wf |-> {PctValue(ps[i]) : i \in {j \in 1..Len(ps) : WellFormed(ps[j])}},
     allWf |-> \A i \in 1..Len(ps) : WellFormed(ps[i]),
     firstWf |-> IF ps # <<>> /\ WellFormed(ps[1]) THEN {PctValue(ps[1])} ELSE {},
     firstEmpty |-> ps # <<>> /\ ~ps[1].null /\ Len(ps[1].cells) = 0,
     firstOutOfRange |-> ps # <<>> /\ ~ps[1].null /\ OutOfRange(ps[1]),
     nullElem |-> /\ ps # <<>>
                  /\ \A i \in 1..Len(ps) : ps[i] = ps[1]
                  /\ ~ps[1].null /\ HasNullElem(ps[1]) /\ ps[1].isArray]

AccBad(c) == c.null \/ c.val <= 0 \/ c.val > Scale

\* what a raw batch holds
RawDigest(hasWeight, hasAccuracy, batch) ==
    LET rows == SelectedRows(batch.sel)
    IN  [badWeight |-> BadWeightRows(hasWeight, batch) # {},
         skippedOnly |-> \A r \in batch.sel : Skipped(hasWeight, batch.rows[r + 1]),
         nullBadWeight |-> /\ hasWeight
                           /\ \E r \in batch.sel : /\ batch.rows[r + 1].value.null
                                                   /\ ~batch.rows[r + 1].weight.null
                                                   /\ ~ValidWeight(batch.rows[r + 1].weight.val),
         added |-> [g \in Groups |-> RawAdded(hasWeight, batch, g)],
         pct |-> PctDigest([i \in 1..Len(rows) |-> RawPct(batch.pct, rows[i])]),
         accBad |-> hasAccuracy /\ \E r \in batch.sel : AccBad(batch.acc.cells[r + 1]),
         accVals |-> IF hasAccuracy
                     THEN {batch.acc.cells[r + 1].val :
                               r \in {q \in batch.sel : ~batch.acc.cells[q + 1].null}}
                     ELSE {}]

\* the rows of an intermediate batch that are not skipped, in row order
RECURSIVE TakenFrom(_, _)
TakenFrom(batch, rows) ==
    IF rows = <<>> THEN <<>>
    ELSE (IF batch.rows[Head(rows) + 1].rowNull \/ batch.rows[Head(rows) + 1].isArrayNull
          THEN <<>> ELSE <<Head(rows)>>) \o TakenFrom(batch, Tail(rows))

TakenRows(batch) == TakenFrom(batch, SelectedRows(batch.sel))

IntPct(batch, r) ==
    LET row == batch.rows[r + 1]
    IN  [isArray |-> row.isArray, null |-> row.pctNull,
         cells |-> [i \in 1..row.size |-> batch.pctCells[row.off + i]]]

\* what an intermediate batch that passes merges into group g
IntAdded(batch, g) ==
    SumOver([r \in RowIds |-> batch.rows[r + 1].view.n],
            {r \in batch.sel : /\ ~batch.rows[r + 1].rowNull
                               /\ ~batch.rows[r + 1].isArrayNull
                               /\ batch.rows[r + 1].group = g})

\* what an intermediate batch holds; its accuracy is that of the first row taken
IntDigest(batch) ==
    LET taken == TakenRows(batch)
        first == {batch.rows[taken[i] + 1].acc : i \in {j \in 1..Len(taken) : j = 1}}
    IN  [badWeight |-> FALSE,
         skippedOnly |-> taken = <<>>,
         nullBadWeight |-> FALSE,
         added |-> [g \in Groups |-> IntAdded(batch, g)],
         pct |-> PctDigest([i \in 1..Len(taken) |-> IntPct(batch, taken[i])]),
         accBad |-> \E c \in first : ~c.null /\ AccBad(c),
         accVals |-> {c.val : c \in {x \in first : ~x.null}}]

NoFacts ==
    [badWeight |-> FALSE, skippedOnly |-> FALSE, nullBadWeight |-> FALSE,
     pctMismatch |-> FALSE, pctMismatchFirst |-> FALSE, pctWf |-> FALSE, pctEmpty |-> FALSE,
     pctOutOfRange |-> FALSE, pctNullElem |-> FALSE, accBad |-> FALSE]

\* the facts of a batch of digest d met by an operator whose percentiles_ is
\* resolved and whose accuracy_ is accuracy
Facts(d, resolved, accuracy) ==
    LET now == {[isArray |-> resolved.isArray, values |-> resolved.values]}
    IN  [badWeight |-> d.badWeight,
         skippedOnly |-> d.skippedOnly,
         nullBadWeight |-> d.nullBadWeight,
         pctWf |-> d.pct.allWf,
         pctMismatch |-> \/ Cardinality(d.pct.wf) > 1
                         \/ resolved.set /\ d.pct.wf # {} /\ d.pct.wf # now,
         pctMismatchFirst |-> resolved.set /\ d.pct.firstWf # {} /\ d.pct.firstWf # now,
         pctEmpty |-> ~resolved.set /\ d.pct.firstEmpty,
         pctOutOfRange |-> ~resolved.set /\ d.pct.firstOutOfRange,
         pctNullElem |-> d.pct.nullElem,
         accBad |-> \/ d.accBad
                    \/ Cardinality(d.accVals) > 1
                    \/ accuracy # kMissingNormalizedValue /\ d.accVals \notin {{}, {accuracy}}]

\* every row of the batch goes to group g
InGroup(batch, g) ==
    [batch EXCEPT !.rows = [i \in DOMAIN batch.rows |-> [batch.rows[i] EXCEPT !.group = g]]]

Input(g, batch, d) == [group |-> g, batch |-> batch, d |-> d]

\* the batches addRawInput is given, by <<hasWeight, hasAccuracy>>
RawInputs ==
    [hw \in BOOLEAN, ha \in BOOLEAN |->
        {Input("g1", b, RawDigest(hw, ha, b)) :
             b \in RowBatches(hw, Groups) \cup ArgumentBatches(ha)}]

\* the groups and batches addSingleGroupRawInput is given
SingleGroupRawInputs ==
    [hw \in BOOLEAN, ha \in BOOLEAN |->
        {Input(g, b, RawDigest(hw, ha, InGroup(b, g))) :
             g \in Groups, b \in RowBatches(hw, {"g1"})}
        \cup {Input("g1", b, RawDigest(hw, ha, InGroup(b, "g1"))) : b \in ArgumentBatches(ha)}]

IntermediateInputs ==
    {Input("g1", b, IntDigest(b)) :
         b \in IntRowBatches(Groups) \cup IntArgumentBatches \cup IntMixedBatches}

SingleGroupIntermediateInputs ==
    {Input(g, b, IntDigest(InGroup(b, g))) : g \in Groups, b \in IntRowBatches({"g1"})}
    \cup {Input("g1", b, IntDigest(InGroup(b, "g1"))) :
              b \in IntArgumentBatches \cup IntMixedBatches}

\* the constructor arguments: every two of them in every combination
Configs ==
    {<<FALSE, FALSE, FALSE>>, <<FALSE, TRUE, TRUE>>, <<TRUE, FALSE, TRUE>>, <<TRUE, TRUE, FALSE>>}

\* ------------------------------------------------------------ state machine

VARIABLES
    hasWeight_,                  \* constructor arguments
    hasAccuracy_,
    validateIntermediateInputs_, \* the intermediate-input validation mode
    percentiles_,                \* std::optional<Percentiles>
    accuracy_,                   \* double, kMissingNormalizedValue when unset
    groups,                      \* group -> KllSketchAccumulator
    err,                         \* the user error the last call threw, or NoErr
    out,                         \* the result vector of the last extract call
    steps,                       \* calls received, MaxSteps once the output is taken
    last,                        \* the last call, its group list and the facts of its batch
    accepted,                    \* group -> total weight appended or merged so far
    trial                        \* one accumulator taken apart from the operator

vars == <<hasWeight_, hasAccuracy_, validateIntermediateInputs_, percentiles_, accuracy_,
          groups, err, out, steps, last, accepted, trial>>

config == <<hasWeight_, hasAccuracy_, validateIntermediateInputs_>>

State ==
    [percentiles_ |-> percentiles_, accuracy_ |-> accuracy_, groups |-> groups, err |-> err,
     setAccuracy |-> last.setAccuracy]

NoOutput == [op |-> "none"]

NoTrial == [op |-> "none"]

PercentileErrs == {ErrEmpty, ErrNull, ErrRange, ErrConst}

AccuracyErrs == {ErrAccNull, ErrAccRange, ErrAccConst}

Init ==
    /\ \E c \in Configs :
          /\ hasWeight_ = c[1]
          /\ hasAccuracy_ = c[2]
          /\ validateIntermediateInputs_ = c[3]
    /\ percentiles_ = PercentilesUnset
    /\ accuracy_ = kMissingNormalizedValue
    /\ groups = [g \in Groups |-> AccumulatorNew]
    /\ err = NoErr
    /\ out = NoOutput
    /\ steps = 0
    /\ last = [op |-> "init", group |-> "g1", glist |-> <<>>, facts |-> NoFacts,
               setAccuracy |-> [g \in Groups |-> NoCalls]]
    /\ accepted = [g \in Groups |-> Zero]
    /\ trial = NoTrial

\* the operator takes the state st a handler returned
Commit(st) ==
    /\ percentiles_' = st.percentiles_
    /\ accuracy_' = st.accuracy_
    /\ groups' = st.groups
    /\ err' = st.err

CanInput == err = NoErr /\ steps < MaxSteps

\* the totals after a batch of digest d: an argument that fails adds nothing
Accepted(st, d) ==
    [g \in Groups |->
        IF st.err \in PercentileErrs \cup AccuracyErrs \cup {ErrMalformed} THEN accepted[g]
        ELSE BigAdd(accepted[g], d.added[g])]

\* the operator has taken the state st from the handler op given input in
Took(op, in, st) ==
    /\ Commit(st)
    /\ accepted' = Accepted(st, in.d)
    /\ last' = [op |-> op, group |-> in.group, glist |-> <<>>,
                facts |-> Facts(in.d, percentiles_, accuracy_),
                setAccuracy |-> st.setAccuracy]
    /\ steps' = steps + 1
    /\ out' = NoOutput
    /\ UNCHANGED <<config, trial>>

AddRawInput(in) ==
    /\ CanInput
    /\ Took("addRawInput", in, addRawInput(State, hasWeight_, hasAccuracy_, in.batch))

AddSingleGroupRawInput(in) ==
    /\ CanInput
    /\ Took("addSingleGroupRawInput", in,
            addSingleGroupRawInput(State, hasWeight_, hasAccuracy_, in.group, in.batch))

AddIntermediateResults(in) ==
    /\ CanInput
    /\ Took("addIntermediateResults", in,
            addIntermediateImpl(State, validateIntermediateInputs_, FALSE, in.group, in.batch))

AddSingleGroupIntermediateResults(in) ==
    /\ CanInput
    /\ Took("addSingleGroupIntermediateResults", in,
            addIntermediateImpl(State, validateIntermediateInputs_, TRUE, in.group, in.batch))

CanExtract == err = NoErr /\ out = NoOutput

\* the final output: no input follows it
ExtractValues(glist) ==
    /\ CanExtract
    /\ LET res == extractValues(State, glist)
       IN  /\ Commit(res.st)
           /\ out' = res.out
    /\ last' = [op |-> "extractValues", group |-> "g1", glist |-> glist, facts |-> NoFacts,
                setAccuracy |-> last.setAccuracy]
    /\ steps' = MaxSteps
    /\ UNCHANGED <<config, accepted, trial>>

\* the partial output, or a spill between two batches
ExtractAccumulators(glist) ==
    /\ CanExtract
    /\ out' = extractAccumulators(State, glist)
    /\ last' = [op |-> "extractAccumulators", group |-> "g1", glist |-> glist,
                facts |-> NoFacts, setAccuracy |-> last.setAccuracy]
    /\ steps' = IF steps < MaxSteps THEN steps + 1 ELSE steps
    /\ UNCHANGED <<config, percentiles_, accuracy_, groups, err, accepted, trial>>

Next ==
    \/ CanInput /\ \E in \in RawInputs[hasWeight_, hasAccuracy_] : AddRawInput(in)
    \/ CanInput /\ \E in \in SingleGroupRawInputs[hasWeight_, hasAccuracy_] :
           AddSingleGroupRawInput(in)
    \/ CanInput /\ \E in \in IntermediateInputs : AddIntermediateResults(in)
    \/ CanInput /\ \E in \in SingleGroupIntermediateInputs : AddSingleGroupIntermediateResults(in)
    \/ CanExtract /\ \E glist \in GroupLists : ExtractValues(glist)
    \/ CanExtract /\ \E glist \in GroupLists : ExtractAccumulators(glist)

Spec == Init /\ [][Next]_vars

\* ------------------------------------------------ KLL sketch, level by level
\* The sketch of spec section 4.1 with its levels: levels[i + 1] holds the
\* items of level i, each standing for 2^i inserted items. Counts are plain
\* integers here, the rows of a trial staying far below 2^31.

kMinLevelZeroCapacity == 8

RECURSIVE Pow(_, _)
Pow(b, e) == IF e = 0 THEN 1 ELSE b * Pow(b, e - 1)

\* capacity(k, numLevels, i) = ceil(k * (2/3)^(numLevels - 1 - i)), at least 8
\* at level 0
KllCapacity(k, numLevels, i) ==
    LET d == numLevels - 1 - i
        c == (k * Pow(2, d) + Pow(3, d) - 1) \div Pow(3, d)
    IN  IF i = 0 /\ c < kMinLevelZeroCapacity THEN kMinLevelZeroCapacity ELSE c

KllNew(k, seed) ==
    [k |-> k, n |-> 0, minValue |-> 0, maxValue |-> 0, levels |-> << <<>> >>,
     finished |-> FALSE, rng |-> seed]

\* compaction of level i: sorted, the smallest item stays when the count is
\* odd, every other item from the drawn offset moves up to level i + 1. The
\* draw is rng % 2, the generator then steps to (3 * rng + 1) % 4.
KllCompactLevel(s, i) ==
    LET items == SortItems(s.levels[i + 1])
        odd == Len(items) % 2 = 1
        rest == IF odd THEN Tail(items) ELSE items
        offset == s.rng % 2
        promoted == [j \in 1..(Len(rest) \div 2) |-> rest[2 * j - 1 + offset]]
        lv == IF i + 1 < Len(s.levels) THEN s.levels ELSE Append(s.levels, <<>>)
    IN  [s EXCEPT !.levels = [lv EXCEPT ![i + 1] = IF odd THEN <<Head(items)>> ELSE <<>>,
                                        ![i + 2] = MergeItems(lv[i + 2], promoted)],
                  !.rng = (3 * @ + 1) % 4]

\* compaction, lowest overflowing level first, while any level overflows
RECURSIVE KllCompress(_)
KllCompress(s) ==
    LET overflowing == {i \in 0..(Len(s.levels) - 1) :
                           Len(s.levels[i + 1]) > KllCapacity(s.k, Len(s.levels), i)}
    IN  IF overflowing = {} THEN s
        ELSE KllCompress(
                 KllCompactLevel(s, CHOOSE i \in overflowing :
                                        \A j \in overflowing : i <= j))

KllInsert(s, v) ==
    KllCompress(
        [s EXCEPT !.n = @ + 1,
                  !.minValue = IF s.n = 0 \/ v < @ THEN v ELSE @,
                  !.maxValue = IF s.n = 0 \/ v > @ THEN v ELSE @,
                  !.levels[1] = Append(@, v),
                  !.finished = FALSE])

KllFinish(s) == [s EXCEPT !.levels[1] = SortItems(@), !.finished = TRUE]

RECURSIVE KllBits(_)
KllBits(count) == IF count = 0 THEN <<>> ELSE <<count % 2>> \o KllBits(count \div 2)

\* bit i of the count is one copy of x at level i
KllFromRepeatedValue(x, count, k, seed) ==
    [k |-> k, n |-> count, minValue |-> x, maxValue |-> x,
     levels |-> [i \in DOMAIN KllBits(count) |->
                    IF KllBits(count)[i] = 1 THEN <<x>> ELSE <<>>],
     finished |-> TRUE, rng |-> seed]

\* the sketch s with the levels of o merged in, level by level, not yet compacted
KllJoin(s, o) ==
    IF o.n = 0 THEN s
    ELSE [s EXCEPT !.k = IF s.n = 0 THEN o.k ELSE Min(s.k, o.k),
                   !.n = @ + o.n,
                   !.minValue = IF s.n = 0 \/ o.minValue < @ THEN o.minValue ELSE @,
                   !.maxValue = IF s.n = 0 \/ o.maxValue > @ THEN o.maxValue ELSE @,
                   !.levels = [i \in 1..(IF Len(s.levels) >= Len(o.levels)
                                          THEN Len(s.levels) ELSE Len(o.levels)) |->
                                  MergeItems(
                                      IF i <= Len(s.levels) THEN s.levels[i] ELSE <<>>,
                                      IF i <= Len(o.levels) THEN o.levels[i] ELSE <<>>)]]

RECURSIVE KllJoinAll(_, _)
KllJoinAll(s, others) ==
    IF others = <<>> THEN s ELSE KllJoinAll(KllJoin(s, Head(others)), Tail(others))

\* merge(others): all the sketches at once, then compaction
KllMerge(s, others) == KllCompress(KllJoinAll(s, others))

KllToView(s) ==
    [k |-> s.k, n |-> s.n, minValue |-> s.minValue, maxValue |-> s.maxValue,
     levels |-> s.levels]

KllFromView(v, seed) ==
    [k |-> v.k, n |-> v.n, minValue |-> v.minValue, maxValue |-> v.maxValue,
     levels |-> v.levels, finished |-> FALSE, rng |-> seed]

\* ------------------------------------- the accumulator over such a sketch
\* acc = [sketch_, largeCountValues_, fixedRandomSeed, source]: source is the
\* state of the process's seed source (random::getSeed()) as the run of this
\* accumulator meets it; a call of it yields source % 2 and steps it by one.

\* std::optional<uint32_t>: <<>> for nullopt, <<seed>> otherwise
NoSeed == <<>>

\* getRandomSeed asking the process's source in every case
getRandomSeed_process(fixedRandomSeed, source) == source % 2

\* getRandomSeed(fixedRandomSeed), with the source in the state given
getRandomSeed(fixedRandomSeed, source) ==
    IF fixedRandomSeed # NoSeed THEN fixedRandomSeed[1] ELSE source % 2

\* the source after getRandomSeed was called the given number of times
sourceAfter(fixedRandomSeed, source, calls) ==
    IF fixedRandomSeed # NoSeed THEN source ELSE source + calls

KllAccumulatorNew(fixedRandomSeed, source) ==
    [sketch_ |-> KllNew(kDefaultK, getRandomSeed(fixedRandomSeed, source)),
     largeCountValues_ |-> <<>>,
     fixedRandomSeed |-> fixedRandomSeed,
     source |-> sourceAfter(fixedRandomSeed, source, 1)]

\* mergeLargeCountValuesIntoSketch(allocator, sketch, fixedRandomSeed), the
\* source being in the state given at the call
kllMergeLargeCountValuesIntoSketch(acc, sketch, source) ==
    IF acc.largeCountValues_ # <<>>
    THEN KllMerge(sketch,
                  [i \in DOMAIN acc.largeCountValues_ |->
                      KllFromRepeatedValue(
                          acc.largeCountValues_[i][1], acc.largeCountValues_[i][2],
                          acc.sketch_.k,
                          getRandomSeed(acc.fixedRandomSeed,
                                        sourceAfter(acc.fixedRandomSeed, source, i - 1)))])
    ELSE sketch

\* flush that leaves the sketch as the merge left it
kllFlush_unfinished(acc) ==
    [acc EXCEPT !.sketch_ = kllMergeLargeCountValuesIntoSketch(acc, acc.sketch_, acc.source),
                !.largeCountValues_ = <<>>,
                !.source = sourceAfter(acc.fixedRandomSeed, @, Len(acc.largeCountValues_))]

\* flush that does not clear the buffer
kllFlush_keepbuffer(acc) ==
    [acc EXCEPT !.sketch_ = KllFinish(
                    kllMergeLargeCountValuesIntoSketch(acc, acc.sketch_, acc.source)),
                !.source = sourceAfter(acc.fixedRandomSeed, @, Len(acc.largeCountValues_))]

\* flush(allocator, fixedRandomSeed)
kllFlush(acc) ==
    [acc EXCEPT !.sketch_ = KllFinish(
                    kllMergeLargeCountValuesIntoSketch(acc, acc.sketch_, acc.source)),
                !.largeCountValues_ = <<>>,
                !.source = sourceAfter(acc.fixedRandomSeed, @, Len(acc.largeCountValues_))]

RECURSIVE kllInsertLoop(_, _, _, _)
kllInsertLoop(sketch, value, i, count) ==
    IF i < count THEN kllInsertLoop(KllInsert(sketch, value), value, i + 1, count)
    ELSE sketch

\* append(T value, int64_t count, allocator, fixedRandomSeed)
kllAppend(acc, value, count) ==
    IF count < kMinCountToBuffer
    THEN [acc EXCEPT !.sketch_ = kllInsertLoop(@, value, 0, count)]
    ELSE LET pushed == [acc EXCEPT !.largeCountValues_ = Append(@, <<value, count>>)]
         IN  IF Len(pushed.largeCountValues_) >= kMaxBufferSize
             THEN kllFlush(pushed)
             ELSE pushed

\* compact(fixedRandomSeed)
kllCompact(acc) ==
    kllMergeLargeCountValuesIntoSketch(
        acc,
        KllFromView(KllToView(acc.sketch_), getRandomSeed(acc.fixedRandomSeed, acc.source)),
        sourceAfter(acc.fixedRandomSeed, acc.source, 1))

\* ---------------------------------------- the rows of one group, two orders
\* One accumulator (a) takes the rows in the order given, a second one (b), of
\* another run of the operator with the same configuration, takes the same
\* rows in the order trial.order; both are flushed, then compacted.

OrderRowCount == 3

\* weights inserted at once (1, and enough to fill level 0) and buffered
OrderWeights == {1, kMinLevelZeroCapacity, kMinCountToBuffer}

\* the sketch parameter: the default, or the one setAccuracy(1.0) gives
OrderKs == {kDefaultK, kFromEpsilon(Scale)}

OrderRows == [1..OrderRowCount -> Values \X OrderWeights]

SameOrder == [i \in 1..OrderRowCount |-> i]

\* the orders tried: the same, the first two rows swapped, the rows reversed,
\* the rows rotated by one
Orders ==
    {SameOrder,
     [i \in 1..OrderRowCount |-> IF i = 1 THEN 2 ELSE IF i = 2 THEN 1 ELSE i],
     [i \in 1..OrderRowCount |-> OrderRowCount + 1 - i],
     [i \in 1..OrderRowCount |-> (i % OrderRowCount) + 1]}

\* the operator's fixedRandomSeed_
FixedSeeds == {NoSeed, <<0>>, <<1>>}

\* the states in which a run finds the process's seed source
Sources == {0, 1}

operatorVars ==
    <<hasWeight_, hasAccuracy_, validateIntermediateInputs_, percentiles_, accuracy_,
      groups, err, out, steps, last, accepted>>

\* the operator as constructed, taking no call
OperatorIdle ==
    /\ hasWeight_ = TRUE
    /\ hasAccuracy_ = FALSE
    /\ validateIntermediateInputs_ = FALSE
    /\ percentiles_ = PercentilesUnset
    /\ accuracy_ = kMissingNormalizedValue
    /\ groups = [g \in Groups |-> AccumulatorNew]
    /\ err = NoErr
    /\ out = NoOutput
    /\ steps = 0
    /\ last = [op |-> "init", group |-> "g1", glist |-> <<>>, facts |-> NoFacts,
               setAccuracy |-> [g \in Groups |-> NoCalls]]
    /\ accepted = [g \in Groups |-> Zero]

OrderInit ==
    /\ OperatorIdle
    /\ \E rows \in OrderRows, order \in Orders, seed \in FixedSeeds, k \in OrderKs,
          source \in Sources :
          trial = [op |-> "new", rows |-> rows, order |-> order, pos |-> 0,
                   fixedRandomSeed |-> seed, sources |-> <<0, source>>,
                   a |-> [KllAccumulatorNew(seed, 0) EXCEPT !.sketch_.k = k],
                   b |-> [KllAccumulatorNew(seed, source) EXCEPT !.sketch_.k = k]]

\* the next row of each order is appended to its accumulator
OrderAppend ==
    /\ trial.op \in {"new", "append"}
    /\ trial.pos < OrderRowCount
    /\ LET ra == trial.rows[trial.pos + 1]
           rb == trial.rows[trial.order[trial.pos + 1]]
       IN  trial' = [trial EXCEPT !.op = "append", !.pos = @ + 1,
                                  !.a = kllAppend(@, ra[1], ra[2]),
                                  !.b = kllAppend(@, rb[1], rb[2])]
    /\ UNCHANGED operatorVars

OrderFlush ==
    /\ trial.op = "append"
    /\ trial.pos = OrderRowCount
    /\ trial' = [trial EXCEPT !.op = "flush", !.a = kllFlush(@), !.b = kllFlush(@)]
    /\ UNCHANGED operatorVars

\* both accumulators, just flushed, are flushed once more
OrderFlushAgain ==
    /\ trial.op = "flush"
    /\ trial' = [trial EXCEPT !.op = "flushAgain", !.a = kllFlush(@), !.b = kllFlush(@)]
    /\ UNCHANGED operatorVars

\* compact() of both accumulators; a and b become the views of the results
OrderCompact ==
    /\ trial.op = "flush"
    /\ trial' = [trial EXCEPT !.op = "compact",
                               !.a = KllToView(kllCompact(@)),
                               !.b = KllToView(kllCompact(@))]
    /\ UNCHANGED operatorVars

OrderNext == OrderAppend \/ OrderFlush \/ OrderFlushAgain \/ OrderCompact

OrderSpec == OrderInit /\ [][OrderNext]_vars

\* ------------------------------------------------ one group, its buffer
\* One accumulator of the operator takes append calls, starting from a buffer
\* that is empty or one or two pairs short of kMaxBufferSize.

MaxAppends == 2

AppendCounts ==
    {1, 2, kMinCountToBuffer - 1, kMinCountToBuffer, kMinCountToBuffer + 2}

\* the buffer after the given number of rows of value 1 and weight 512
BufferOf(size) == [i \in 1..size |-> <<1, BigOf(kMinCountToBuffer)>>]

AppendStarts ==
    {[acc EXCEPT !.largeCountValues_ = BufferOf(size)] :
        acc \in {AccumulatorNew, appendValue(AccumulatorNew, 2)},
        size \in {0, kMaxBufferSize - 2, kMaxBufferSize - 1}}

AppendInit ==
    /\ OperatorIdle
    /\ \E acc \in AppendStarts :
          trial = [op |-> "new", acc |-> acc, calls |-> 0, value |-> 1, count |-> 0,
                   sizeBefore |-> 0]

\* accumulator->append(value, weight, allocator_, fixedRandomSeed_)
TrialAppend ==
    /\ trial.op \in {"new", "append"}
    /\ trial.calls < MaxAppends
    /\ \E value \in Values, count \in AppendCounts :
          trial' = [op |-> "append", acc |-> append(trial.acc, value, BigOf(count)),
                    calls |-> trial.calls + 1, value |-> value, count |-> count,
                    sizeBefore |-> Len(trial.acc.largeCountValues_)]
    /\ UNCHANGED operatorVars

AppendNext == TrialAppend

AppendSpec == AppendInit /\ [][AppendNext]_vars

\* ------------------------------------------- partial and final operators
\* Partial operators take raw batches and hand their accumulators over
\* (extractAccumulators); one final operator takes the rows they produced
\* (addIntermediateResults / addSingleGroupIntermediateResults).

MaxPartials == 2

\* an operator as constructed
NewOperator ==
    [percentiles_ |-> PercentilesUnset, accuracy_ |-> kMissingNormalizedValue,
     groups |-> [g \in Groups |-> AccumulatorNew], err |-> NoErr,
     setAccuracy |-> [g \in Groups |-> NoCalls]]

\* the row vector extractAccumulators has filled, as the batch the final
\* operator decodes: the three query-scope children are constant vectors, row i
\* belongs to the group it was extracted from, and the fields of a null row hold
\* nothing
PartialBatch(result, glist) ==
    [sel |-> 0..(Len(glist) - 1),
     constEnc |-> TRUE,
     pctCells |-> [i \in 1..Len(result.percentiles.val) |->
                      Cell(FALSE, result.percentiles.val[i])],
     rows |-> [i \in 1..Len(glist) |->
                  IntRow(glist[i], result.rows[i].null,
                         result.percentilesIsArray.null, result.percentilesIsArray.val,
                         result.percentiles.null, <<0, Len(result.percentiles.val)>>,
                         Cell(result.accuracy.null, result.accuracy.val),
                         result.rows[i].null,
                         View(result.rows[i].k, result.rows[i].n, result.rows[i].vals,
                              result.rows[i].level0))]]

\* the n of the non-null rows of a result that go to group g of the final
\* operator: all rows in the single-group form, those extracted from g else
RowsCount(result, glist, kSingleGroup, group, g) ==
    SumOver([i \in 1..Len(glist) |-> result.rows[i].n],
            {i \in 1..Len(glist) : /\ ~result.rows[i].null
                                   /\ IF kSingleGroup THEN g = group ELSE g = glist[i]})

PartialInit ==
    /\ OperatorIdle
    /\ \E c \in Configs :
          trial = [op |-> "new", config |-> c, partial |-> NewOperator, partials |-> 1,
                   glist |-> <<>>, result |-> NoOutput, final |-> NewOperator,
                   merged |-> [g \in Groups |-> Zero]]

\* a partial operator takes a raw batch
PartialInput ==
    /\ trial.op = "new"
    /\ \E in \in RawInputs[trial.config[1], trial.config[2]] :
          trial' = [trial EXCEPT
                       !.op = "taken",
                       !.partial = addRawInput(@, trial.config[1], trial.config[2], in.batch)]
    /\ UNCHANGED operatorVars

\* the partial operator hands over its accumulators
PartialExtract ==
    /\ trial.op \in {"new", "taken"}
    /\ trial.partial.err = NoErr
    /\ \E glist \in GroupLists :
          trial' = [trial EXCEPT !.op = "extracted", !.glist = glist,
                                 !.result = extractAccumulators(trial.partial, glist)]
    /\ UNCHANGED operatorVars

\* the final operator takes the rows, each for its group or all for one group
FinalReceive ==
    /\ trial.op = "extracted"
    /\ trial.final.err = NoErr
    /\ \E kSingleGroup \in BOOLEAN, group \in Groups :
          /\ ~kSingleGroup => group = "g1"
          /\ trial' = [trial EXCEPT
                          !.op = "received",
                          !.final = addIntermediateImpl(
                                        @, trial.config[3], kSingleGroup, group,
                                        PartialBatch(trial.result, trial.glist)),
                          !.merged = [g \in Groups |->
                                         BigAdd(@[g], RowsCount(trial.result, trial.glist,
                                                                kSingleGroup, group, g))]]
    /\ UNCHANGED operatorVars

\* the next partial operator of the same aggregation
NextPartial ==
    /\ trial.op = "received"
    /\ trial.partials < MaxPartials
    /\ trial' = [trial EXCEPT !.op = "new", !.partial = NewOperator,
                              !.partials = @ + 1, !.glist = <<>>, !.result = NoOutput]
    /\ UNCHANGED operatorVars

PartialNext == PartialInput \/ PartialExtract \/ FinalReceive \/ NextPartial

PartialFinalSpec == PartialInit /\ [][PartialNext]_vars

\* ------------------------------------------------------ the factory
\* The function registered by registerApproxPercentileAggregate, called with
\* the step, the argument types and the result type. A type is its kind, the
\* kind of its elements (arrays) and the kind of its minValue child (rows).

MaxArgs == 5

Type(kind, elementType, minValue) ==
    [kind |-> kind, elementType |-> elementType, minValue |-> minValue]

Types ==
    {Type("DOUBLE", "none", "none"), Type("BIGINT", "none", "none"),
     Type("VARCHAR", "none", "none"), Type("ARRAY", "DOUBLE", "none"),
     Type("ARRAY", "BIGINT", "none"), Type("ROW", "none", "DOUBLE")}

ArgTypeLists == UNION {[1..n -> Types] : n \in 0..MaxArgs}

ResultTypes == {Type("DOUBLE", "none", "none"), Type("ARRAY", "DOUBLE", "none")}

Steps == {"kPartial", "kFinal", "kIntermediate", "kSingle"}

isRawInput(step) == step \in {"kPartial", "kSingle"}

isPartialOutput(step) == step \in {"kPartial", "kIntermediate"}

\* validPercentileType taking an array of any element type
validPercentileType_anyarray(type) == type.kind \in {"DOUBLE", "ARRAY"}

validPercentileType(type) ==
    IF type.kind = "DOUBLE" THEN TRUE
    ELSE IF type.kind # "ARRAY" THEN FALSE
    ELSE type.elementType = "DOUBLE"

\* the factory: the error it throws or, without one, the constructor arguments
\* and the value type T of the operator it makes; argTypes[i] of the code is
\* argTypes[i + 1] here
factory(step, argTypes, resultType) ==
    LET size == Len(argTypes)
        hasWeight == size >= 2 /\ argTypes[2].kind = "BIGINT"
        hasAccuracy == size = (IF hasWeight THEN 4 ELSE 3)
        failed(message) ==
            [err |-> message, hasWeight |-> hasWeight, hasAccuracy |-> hasAccuracy,
             T |-> "none"]
        expected == 2 + (IF hasWeight THEN 1 ELSE 0) + (IF hasAccuracy THEN 1 ELSE 0)
        checked ==
            IF isRawInput(step)
            THEN IF size # expected THEN "Wrong number of arguments"
                 ELSE IF hasWeight /\ argTypes[2].kind # "BIGINT"
                 THEN "The type of the weight argument must be BIGINT"
                 ELSE IF hasAccuracy /\ argTypes[size].kind # "DOUBLE"
                 THEN "The type of the accuracy argument must be DOUBLE"
                 ELSE IF ~validPercentileType(
                              argTypes[size - (IF hasAccuracy THEN 1 ELSE 0)])
                 THEN "The type of the percentile argument must be DOUBLE or ARRAY(DOUBLE)"
                 ELSE NoErr
            ELSE IF size # 1 \/ argTypes[1].kind # "ROW"
                 THEN "The type of partial result must be ROW"
                 ELSE NoErr
        type == IF ~isRawInput(step) /\ isPartialOutput(step) THEN argTypes[1].minValue
                ELSE IF isRawInput(step) THEN argTypes[1].kind
                ELSE IF resultType.kind = "ARRAY" THEN resultType.elementType
                ELSE resultType.kind
    IN  IF checked # NoErr THEN failed(checked)
        ELSE IF type \in {"TINYINT", "SMALLINT", "INTEGER", "BIGINT", "REAL", "DOUBLE"}
        THEN [err |-> NoErr, hasWeight |-> hasWeight, hasAccuracy |-> hasAccuracy,
              T |-> type]
        ELSE failed("Unsupported input type")

FactoryInit == OperatorIdle /\ trial = [op |-> "registered"]

FactoryCreate ==
    /\ trial.op = "registered"
    /\ \E step \in Steps, argTypes \in ArgTypeLists, resultType \in ResultTypes :
          trial' = [op |-> "create", step |-> step, argTypes |-> argTypes,
                    resultType |-> resultType,
                    made |-> factory(step, argTypes, resultType)]
    /\ UNCHANGED operatorVars

FactoryNext == FactoryCreate

FactorySpec == FactoryInit /\ [][FactoryNext]_vars

\* ------------------------------------------------------------- properties

RawOps == {"addRawInput", "addSingleGroupRawInput"}

IntermediateOps == {"addIntermediateResults", "addSingleGroupIntermediateResults"}

ArgumentErrs == PercentileErrs \cup AccuracyErrs \cup {ErrMalformed}

\* the counts held in the bulk-insert buffer of an accumulator
BufferedCount(acc) ==
    BigSum([i \in 1..Len(acc.largeCountValues_) |-> acc.largeCountValues_[i][2]])

\* what a group holds: the sketch's n and the buffered counts
HeldCount(g) == BigAdd(groups[g].sketch_.n, BufferedCount(groups[g]))

\* C1: on the weighted raw paths a selected row with a non-null value and a
\* non-null weight below 1 or above 2^60 - 1 makes the call raise a user error,
\* and the row is not added to its group (the groups hold the rows before it
\* and nothing else); a call whose weights are all in range raises no weight
\* error.
C1_WeightRange ==
    last.op \in RawOps =>
        /\ last.facts.badWeight => err # NoErr
        /\ last.facts.badWeight /\ err \notin ArgumentErrs => err = WeightErr
        /\ err = WeightErr => hasWeight_ /\ last.facts.badWeight
        /\ err = WeightErr => \A g \in Groups : HeldCount(g) = accepted[g]

\* a weighted batch whose first row was appended and whose second row has a
\* weight out of range
C1_Witness ==
    /\ last.op \in RawOps
    /\ hasWeight_
    /\ last.facts.badWeight
    /\ err = WeightErr
    /\ \E g \in Groups : accepted[g] # Zero /\ HeldCount(g) = accepted[g]

\* The state part of C2 (as amended): once percentiles_ is resolved, on the
\* raw paths a batch with a selected row whose well-formed percentile argument
\* differs from the resolved one in kind, length or value, or from another
\* row's, raises a percentile error, "Percentile argument must be constant for
\* all input rows" when every row's argument is well-formed; on the
\* intermediate paths the same holds of the first row of the batch that is
\* not skipped, the only row whose argument is read.
C2_State ==
    /\ last.op \in RawOps /\ last.facts.pctMismatch => err \in PercentileErrs
    /\ last.op \in RawOps /\ last.facts.pctMismatch /\ last.facts.pctWf => err = ErrConst
    /\ last.op \in IntermediateOps /\ last.facts.pctMismatchFirst =>
           err \in {ErrConst, ErrMalformed}
    /\ last.op \in IntermediateOps /\ last.facts.pctMismatchFirst
           /\ ~validateIntermediateInputs_ => err = ErrConst

\* C2 (as amended): no step changes a resolved percentiles_, and after every
\* step a differing percentile argument, of any raw row or of the first
\* intermediate row taken, has raised the error.
C2_PercentilesConstant ==
    [][(percentiles_.set => percentiles_' = percentiles_) /\ C2_State']_vars

\* C2 as stated: every row whose percentile argument differs raises an error,
\* on the intermediate paths too.
C2_EveryRow ==
    last.op \in RawOps \cup IntermediateOps /\ last.facts.pctMismatch => err # NoErr

\* a later batch whose percentile argument differs from the resolved one
C2_Witness ==
    /\ last.op \in IntermediateOps
    /\ steps = 2
    /\ last.facts.pctMismatchFirst
    /\ err = ErrConst
    /\ percentiles_.set

\* C3: resolving percentiles from an array of length 0 or from a value below 0
\* or above 1 raises a user error, and whenever percentiles_ is set its values
\* are non-empty and all in [0, 1].
C3_PercentileRange ==
    /\ last.facts.pctEmpty => err \in PercentileErrs \cup {ErrMalformed}
    /\ last.facts.pctOutOfRange => err \in PercentileErrs \cup {ErrMalformed}
    /\ percentiles_.set =>
           /\ Len(percentiles_.values) > 0
           /\ \A i \in 1..Len(percentiles_.values) :
                  0 <= percentiles_.values[i] /\ percentiles_.values[i] <= Scale

\* a value above 1 met after a value in range was stored
C3_Witness ==
    /\ last.facts.pctOutOfRange
    /\ err = ErrRange
    /\ percentiles_.set
    /\ Len(percentiles_.values) = 2

\* C4 as stated: a batch whose rows all carry the same array with a null
\* element raises "Percentile cannot be null".
C4_NullElement ==
    last.op \in RawOps /\ last.facts.pctNullElem => err = ErrNull

\* The state part of C5: with an accuracy argument declared, a raw batch with a selected row
\* whose accuracy is null, outside (0, 1], different from another row's or
\* different from the resolved accuracy raises a user error; accuracy_ lies in
\* (0, 1] once it has left the sentinel.
C5_State ==
    /\ last.op \in RawOps /\ last.facts.accBad => err \in PercentileErrs \cup AccuracyErrs
    /\ last.op \in RawOps /\ err \in AccuracyErrs => hasAccuracy_ /\ last.facts.accBad
    /\ accuracy_ # kMissingNormalizedValue => 0 < accuracy_ /\ accuracy_ <= Scale

\* C5: no step changes an accuracy_ that has left the sentinel, and after
\* every step a raw batch with a bad accuracy has raised a user error.
C5_AccuracyConstant ==
    [][(accuracy_ # kMissingNormalizedValue => accuracy_' = accuracy_) /\ C5_State']_vars

\* an intermediate row with another accuracy than the resolved one
C5_Witness ==
    /\ last.op \in IntermediateOps
    /\ last.facts.accBad
    /\ err = ErrAccConst
    /\ accuracy_ # kMissingNormalizedValue

\* what a group's accumulator holds besides the sketch's parameter k
Contents(acc) ==
    [n |-> acc.sketch_.n, vals |-> acc.sketch_.vals, level0 |-> acc.sketch_.level0,
     finished |-> acc.sketch_.finished, largeCountValues_ |-> acc.largeCountValues_]

\* the last call was a raw batch whose selected rows are all skipped (a null
\* value, or a null weight when weighted) and whose arguments passed
SkippedBatch == /\ last.op \in RawOps
                /\ last.facts.skippedOnly
                /\ err \notin ArgumentErrs

\* C6 (as amended): raw rows with a null value, or a null weight when
\* weighted, raise no error, whatever the weight beside a null value, and leave
\* the count, the values and the buffer of every group unchanged; addRawInput
\* leaves the accumulators unchanged altogether, addSingleGroupRawInput leaves
\* all but the sketch parameter k of its group unchanged.
C6_NullRowsSkipped ==
    [][SkippedBatch' =>
           /\ err' = NoErr
           /\ \A g \in Groups : Contents(groups'[g]) = Contents(groups[g])
           /\ \A g \in Groups : g # last'.group => groups'[g] = groups[g]
           /\ last'.op = "addRawInput" => groups' = groups]_vars

\* C6 as stated: such rows leave every group's sketch and buffer unchanged.
C6_SketchUnchanged ==
    [][SkippedBatch' => err' = NoErr /\ groups' = groups]_vars

\* a batch of null values beside weights out of range, met by groups that
\* hold values
C6_Witness ==
    /\ SkippedBatch
    /\ hasWeight_
    /\ last.facts.nullBadWeight
    /\ err = NoErr
    /\ steps = 2
    /\ \E g \in Groups : HeldCount(g) # Zero

\* the rows of the last result vector go with the groups listed
ResultRows == 1..Len(last.glist)

\* C7: extractValues emits null for a group exactly when percentiles_ is unset
\* or the group holds nothing once its buffer is drained, whatever raw and
\* intermediate batches came before; a group a value was accepted for is not
\* null.
C7_ExtractValuesNull ==
    out.op = "extractValues" =>
        /\ Len(out.rows) = Len(last.glist)
        /\ out.nullConstant = ~percentiles_.set
        /\ \A i \in ResultRows :
               LET acc == groups[last.glist[i]]
               IN  /\ acc.largeCountValues_ = <<>>
                   /\ out.rows[i].null <=> (~percentiles_.set \/ acc.sketch_.n = Zero)
                   /\ accepted[last.glist[i]] # Zero => ~out.rows[i].null

\* a null row beside a row of a group whose values were all in the buffer
C7_Witness ==
    /\ out.op = "extractValues"
    /\ \E i, j \in ResultRows : /\ out.rows[i].null
                                /\ ~out.rows[j].null
                                /\ ~BigLt(accepted[last.glist[j]], BigOf(kMinCountToBuffer))

\* the sum of the counts of the values a sketch stands for
ValsCount(sketch) == BigSum([i \in 1..Cardinality(Values) |-> sketch.vals[i]])

\* C8: in every state the sketch's n plus the counts in the buffer is the sum
\* of the weights of the raw rows accepted (1 each when unweighted) and of the
\* n of the views merged; once extractValues has flushed a group its buffer is
\* empty and its sketch's n is that sum, as many values as inserting each one
\* weight times gives.
C8_CountConservation ==
    err \in {NoErr, WeightErr} =>
        /\ \A g \in Groups : HeldCount(g) = accepted[g]
        /\ out.op = "extractValues" =>
               \A i \in ResultRows :
                   LET acc == groups[last.glist[i]]
                   IN  /\ acc.largeCountValues_ = <<>>
                       /\ acc.sketch_.n = accepted[last.glist[i]]
                       /\ ValsCount(acc.sketch_) = acc.sketch_.n

\* a flushed group that held a buffered weight and more
C8_Witness ==
    /\ out.op = "extractValues"
    /\ \E i \in ResultRows :
           /\ BigLt(BigOf(kMinCountToBuffer), accepted[last.glist[i]])
           /\ groups[last.glist[i]].sketch_.n = accepted[last.glist[i]]

\* C9: extractAccumulators emits a null row for a group exactly when the
\* sketch's n plus the buffered counts is 0, and else a row whose n is that
\* total, at least 1; the buffer is counted and stays as it was.
C9_ExtractAccumulatorsRows ==
    out.op = "extractAccumulators" =>
        /\ Len(out.rows) = Len(last.glist)
        /\ \A i \in ResultRows :
               /\ out.rows[i].null <=> HeldCount(last.glist[i]) = Zero
               /\ ~out.rows[i].null =>
                      /\ out.rows[i].n = HeldCount(last.glist[i])
                      /\ out.rows[i].n = accepted[last.glist[i]]
                      /\ BigLeq(One, out.rows[i].n)

\* a null row beside the row of a group with values in its buffer
C9_Witness ==
    /\ out.op = "extractAccumulators"
    /\ \E i, j \in ResultRows :
           /\ out.rows[i].null
           /\ ~out.rows[j].null
           /\ groups[last.glist[j]].largeCountValues_ # <<>>
           /\ out.rows[j].n = HeldCount(last.glist[j])

\* C10: in the result of extractAccumulators the percentiles,
\* percentilesIsArray and accuracy columns are constants over the rows of the
\* batch holding the operator's resolved values, accuracy null exactly when
\* accuracy_ is unset; with percentiles_ unset the three are null constants and
\* every row is null.
C10_ConstantColumns ==
    out.op = "extractAccumulators" =>
        /\ out.percentiles.size = Len(last.glist)
        /\ out.percentilesIsArray.size = Len(last.glist)
        /\ out.accuracy.size = Len(last.glist)
        /\ percentiles_.set =>
               /\ out.percentiles = ConstantVector(Len(last.glist), FALSE, percentiles_.values)
               /\ out.percentilesIsArray =
                      ConstantVector(Len(last.glist), FALSE, percentiles_.isArray)
               /\ out.accuracy.null <=> accuracy_ = kMissingNormalizedValue
               /\ ~out.accuracy.null => out.accuracy.val = accuracy_
        /\ ~percentiles_.set =>
               /\ out.percentiles.null
               /\ out.percentilesIsArray.null
               /\ out.accuracy.null
               /\ \A i \in ResultRows : out.rows[i].null

\* a partial output with percentiles and accuracy resolved
C10_Witness ==
    /\ out.op = "extractAccumulators"
    /\ percentiles_.set
    /\ percentiles_.isArray
    /\ Len(percentiles_.values) = 2
    /\ ~out.accuracy.null
    /\ out.accuracy.val = accuracy_

\* the items are in ascending order
Ascending(items) == \A i \in 1..(Len(items) - 1) : items[i] <= items[i + 1]

\* C11: every non-null row that extractAccumulators serializes has its level 0
\* sorted ascending, as if the copy had been finished before it was compacted,
\* also when raw values were inserted into the group after its last flush.
C11_SpillFinished ==
    out.op = "extractAccumulators" =>
        \A i \in DOMAIN out.rows : ~out.rows[i].null => Ascending(out.rows[i].level0)

\* C12: extractAccumulators leaves the sketch and the buffer of every group as
\* they were, the groups' own sketches are the ones living in the arena, and
\* every sketch the call constructs (the copies and the repeated-value sketches
\* merged into them) takes its storage from the heap, wherever the call falls
\* among the input batches.
C12_SpillLeavesArena ==
    [][/\ \A g \in Groups : groups[g].sketch_.allocator = HashStringAllocator
       /\ out'.op = "extractAccumulators" =>
              /\ groups' = groups
              /\ out'.allocators = {StdAllocator}]_vars

\* extractAccumulators came after an input batch, over a group holding both
\* inserted values and buffered pairs
C12_Witness ==
    /\ out.op = "extractAccumulators"
    /\ steps = MaxSteps
    /\ \E i \in DOMAIN last.glist :
          /\ groups[last.glist[i]].largeCountValues_ # <<>>
          /\ groups[last.glist[i]].sketch_.level0 # <<>>

\* the copies inserted at once by the rows (weight below kMinCountToBuffer)
RECURSIVE InsertedAtOnce(_)
InsertedAtOnce(rows) ==
    IF rows = <<>> THEN 0
    ELSE (IF Head(rows)[2] < kMinCountToBuffer THEN Head(rows)[2] ELSE 0)
         + InsertedAtOnce(Tail(rows))

Run(acc) == IF "source" \in DOMAIN acc THEN [acc EXCEPT !.source = 0] ELSE acc

PercentileType(t) == t.kind = "DOUBLE" \/ (t.kind = "ARRAY" /\ t.elementType = "DOUBLE")

\* a type of the values the function aggregates
ValueType(t) == t.kind \in {"TINYINT", "SMALLINT", "INTEGER", "BIGINT", "REAL", "DOUBLE"}

\* the shapes <<hasWeight, hasAccuracy>> the argument types a have: value,
\* then a bigint weight if hasWeight, then the percentile, then a double
\* accuracy if hasAccuracy
Shapes(a) ==
    {sh \in BOOLEAN \X BOOLEAN :
        LET w == IF sh[1] THEN 1 ELSE 0
        IN  /\ Len(a) = 2 + w + (IF sh[2] THEN 1 ELSE 0)
            /\ sh[1] => a[2].kind = "BIGINT"
            /\ PercentileType(a[2 + w])
            /\ sh[2] => a[3 + w].kind = "DOUBLE"}

\* C15: on a raw-input step the factory makes an operator exactly when the
\* argument types are (value, percentile), (value, bigint, percentile),
\* (value, percentile, double) or (value, bigint, percentile, double), value
\* being of a numeric type the function aggregates and percentile double or
\* array(double); hasWeight and hasAccuracy are then those of the shape, and
\* every other list raises a user error.
C15_FactoryShapes ==
    trial.op = "create" /\ isRawInput(trial.step) =>
        LET a == trial.argTypes
            ok == Shapes(a) # {} /\ ValueType(a[1])
        IN  /\ ok <=> trial.made.err = NoErr
            /\ ok => Shapes(a) = {<<trial.made.hasWeight, trial.made.hasAccuracy>>}

\* the factory made an operator for (value, bigint, array(double), double)
C15_Witness ==
    /\ trial.op = "create"
    /\ isRawInput(trial.step)
    /\ trial.made.err = NoErr
    /\ trial.made.hasWeight /\ trial.made.hasAccuracy
    /\ trial.argTypes[3].kind = "ARRAY"

\* the number of items equal to v
RECURSIVE CountOf(_, _)
CountOf(items, v) ==
    IF items = <<>> THEN 0
    ELSE (IF Head(items) = v THEN 1 ELSE 0) + CountOf(Tail(items), v)

\* flush took the accumulator before to the accumulator after without touching
\* anything but level 0, which has the same items in ascending order, and the
\* finished flag, which is set
OnlyFinished(before, after) ==
    /\ after.sketch_.finished
    /\ Ascending(after.sketch_.levels[1])
    /\ \A v \in Values :
          CountOf(after.sketch_.levels[1], v) = CountOf(before.sketch_.levels[1], v)
    /\ after = [before EXCEPT !.sketch_.finished = TRUE,
                              !.sketch_.levels[1] = after.sketch_.levels[1]]

\* C16 as stated: a flush of an accumulator whose buffer is empty changes
\* nothing but the finished flag.
C16_OnlyFlag ==
    [][trial'.op = "flush" /\ trial.b.largeCountValues_ = <<>> =>
           trial'.b = [trial.b EXCEPT !.sketch_.finished = TRUE]]_vars

\* C16: a second flush right after a flush changes neither the sketch nor the
\* (empty) buffer; a flush of an accumulator whose buffer is empty sets the
\* finished flag and sorts the items of level 0, and changes nothing else.
C16_FlushIdempotent ==
    [][/\ trial'.op = "flushAgain" =>
              /\ trial'.a = trial.a
              /\ trial'.b = trial.b
              /\ trial'.a.largeCountValues_ = <<>>
       /\ trial'.op = "flush" /\ trial.a.largeCountValues_ = <<>> =>
              /\ OnlyFinished(trial.a, trial'.a)
              /\ OnlyFinished(trial.b, trial'.b)]_vars

\* an accumulator that held inserted items and buffered pairs was flushed twice
C16_Witness ==
    /\ trial.op = "flushAgain"
    /\ InsertedAtOnce(trial.rows) > 0
    /\ \E i \in 1..OrderRowCount : trial.rows[i][2] >= kMinCountToBuffer
    /\ Len(trial.a.sketch_.levels) > 1

\* C17: in extractValues every estimateQuantile / estimateQuantiles call sees a
\* finished sketch of a group whose buffer is empty: the group was flushed
\* earlier in the same call and nothing was appended since; the call is made
\* for exactly the non-null rows, and the groups are left flushed.
C17_EstimateAfterFlush ==
    out.op = "extractValues" =>
        /\ \A i \in DOMAIN out.rows :
              /\ out.rows[i].estimated => out.rows[i].finished /\ out.rows[i].buffered = 0
              /\ out.rows[i].estimated <=> ~out.nullConstant /\ ~out.rows[i].null
        /\ \A i \in DOMAIN last.glist :
              /\ groups[last.glist[i]].sketch_.finished
              /\ groups[last.glist[i]].largeCountValues_ = <<>>

\* extractValues estimated on the second group listed, which had taken a
\* buffered pair and an inserted value
C17_Witness ==
    /\ out.op = "extractValues"
    /\ Len(last.glist) = 2
    /\ out.rows[2].estimated
    /\ BigLt(BigOf(kMinCountToBuffer), groups[last.glist[2]].sketch_.n)
    /\ Len(groups[last.glist[2]].sketch_.level0) > 0

\* C18: between the calls the buffer of the accumulator holds fewer than
\* kMaxBufferSize = 4096 pairs, each of a count of at least kMinCountToBuffer =
\* 512, also right below the cap.
C18_BufferBounded ==
    trial.op \in {"new", "append"} =>
        /\ Len(trial.acc.largeCountValues_) < kMaxBufferSize
        /\ \A i \in DOMAIN trial.acc.largeCountValues_ :
              BigLeq(BigOf(kMinCountToBuffer), trial.acc.largeCountValues_[i][2])

\* an append has brought the buffer to one pair below the cap
C18_Witness ==
    /\ trial.op = "append"
    /\ trial.sizeBefore = kMaxBufferSize - 2
    /\ Len(trial.acc.largeCountValues_) = kMaxBufferSize - 1

\* the counts of the pairs of a buffer, added up
RECURSIVE SumCounts(_)
SumCounts(entries) ==
    IF entries = <<>> THEN 0
    ELSE IF Len(entries) = 1 THEN entries[1][2][2] * Limb + entries[1][2][3]
    ELSE SumCounts(SubSeq(entries, 1, Len(entries) \div 2))
            + SumCounts(SubSeq(entries, Len(entries) \div 2 + 1, Len(entries)))

Small(x) == x[2] * Limb + x[3]

\* C19: append(v, count) with count < 512 (511 included) inserts v count times
\* into the sketch and leaves the buffer as it is; with count >= 512 (512
\* included) it puts the one pair (v, count) at the end of the buffer and inserts
\* nothing, and the whole buffer is flushed into the sketch exactly when that
\* pair is the 4096th.
C19_AppendRouting ==
    [][trial'.op = "append" =>
        LET before == trial.acc
            after == trial'.acc
            v == trial'.value
            count == trial'.count
        IN  IF count < kMinCountToBuffer
            THEN /\ after.largeCountValues_ = before.largeCountValues_
                 /\ after.sketch_ =
                        [before.sketch_ EXCEPT
                            !.n = BigOf(Small(@) + count),
                            !.vals[v] = BigOf(Small(@) + count),
                            !.level0 = @ \o [j \in 1..count |-> v],
                            !.finished = FALSE]
            ELSE IF Len(before.largeCountValues_) + 1 = kMaxBufferSize
            THEN /\ after.largeCountValues_ = <<>>
                 /\ after.sketch_.finished
                 /\ Small(after.sketch_.n) =
                        Small(before.sketch_.n) + SumCounts(before.largeCountValues_) + count
                 /\ Len(after.sketch_.level0) = Len(before.sketch_.level0)
            ELSE /\ after.largeCountValues_ =
                        Append(before.largeCountValues_, <<v, BigOf(count)>>)
                 /\ after.sketch_ = before.sketch_]_vars

\* the push of the 4096th pair has flushed the buffer, and a count of 511 has
\* gone into the sketch
C19_Witness ==
    /\ trial.op = "append"
    /\ trial.sizeBefore = kMaxBufferSize - 1
    /\ trial.count = kMinCountToBuffer
    /\ trial.acc.largeCountValues_ = <<>>
    /\ Len(trial.acc.sketch_.level0) >= kMinCountToBuffer - 1

\* the rows before row i of the result that are not null
NonNullBefore(i) == {h \in 1..(i - 1) : ~out.rows[h].null}

\* C20: with array percentiles extractValues gives every group that holds
\* something an array of exactly |percentiles| estimates, one per percentile in
\* the order the percentiles were given; the (offset, size) ranges of these
\* groups follow one another without a gap or an overlap, and the elements
\* vector has exactly |percentiles| places per such group, so that no estimate
\* is written past its end.
C20_ArrayRanges ==
    out.op = "extractValues" /\ out.isArray =>
        LET percentiles == percentiles_.values
        IN  /\ ~out.elements.overrun
            /\ Len(out.elements.cells) =
                   Len(percentiles) * Cardinality(NonNullBefore(Len(out.rows) + 1))
            /\ \A i \in ResultRows :
                  /\ out.rows[i].null <=> totalCount(groups[last.glist[i]]) = Zero
                  /\ ~out.rows[i].null =>
                        /\ out.rows[i].size = Len(percentiles)
                        /\ out.rows[i].offset =
                               Len(percentiles) * Cardinality(NonNullBefore(i))
                        /\ \A j \in 1..Len(percentiles) :
                              out.elements.cells[out.rows[i].offset + j] =
                                  [group |-> last.glist[i], percentile |-> percentiles[j]]

\* two groups with arrays of two percentiles that differ, one after the other
C20_Witness ==
    /\ out.op = "extractValues"
    /\ out.isArray
    /\ Len(percentiles_.values) = 2
    /\ percentiles_.values[1] # percentiles_.values[2]
    /\ \E i, j \in ResultRows : /\ i < j
                                /\ ~out.rows[i].null
                                /\ ~out.rows[j].null
                                /\ out.rows[j].offset = 2

\* an array result with a null row
C20_NullRow ==
    /\ out.op = "extractValues"
    /\ out.isArray
    /\ \E i, j \in ResultRows : i < j /\ out.rows[i].null /\ ~out.rows[j].null

\* the last call was an intermediate batch whose selected rows are all skipped:
\* null rows, or rows whose percentilesIsArray is null
SkippedIntermediate == last.op \in IntermediateOps /\ last.facts.skippedOnly

\* C21: on the intermediate paths a selected row that is null or whose
\* percentilesIsArray is null is skipped: a batch of such rows only changes
\* neither percentiles_ nor accuracy_ nor any group, and raises nothing but the
\* error of the validation of the columns' encodings, which comes before the
\* rows; beside other rows such a row adds nothing to any group.
C21_IntermediateSkipped ==
    [][/\ SkippedIntermediate' =>
              /\ percentiles_' = percentiles_
              /\ accuracy_' = accuracy_
              /\ groups' = groups
              /\ err' # NoErr => validateIntermediateInputs_ /\ err' = ErrMalformed
       /\ last'.op \in IntermediateOps /\ err' = NoErr =>
              \A g \in Groups : HeldCount(g)' = accepted'[g]]_vars

\* a batch of skipped rows only, met by a resolved operator whose groups hold
\* values
C21_Witness ==
    /\ SkippedIntermediate
    /\ err = NoErr
    /\ steps = 2
    /\ percentiles_.set
    /\ \E g \in Groups : HeldCount(g) # Zero


\* C22: setAccuracy is applied to a group once, at the group's first ingest
\* after the accuracy is determined: over any sequence of raw and intermediate
\* batches no group has a second call of it, none has a call when it already
\* holds items, and none has its k raised again after a merge has lowered it.
C22_SetAccuracyOnce ==
    \A g \in Groups :
        /\ last.setAccuracy[g].calls <= 1
        /\ last.setAccuracy[g].raised => ~last.setAccuracy[g].withItems


\* the final operator has just taken the rows of a partial operator
Received == trial.op = "received"

\* some row of the result handed over is not null
SomeRow == \E i \in DOMAIN trial.result.rows : ~trial.result.rows[i].null

\* C23 as stated: a final operator that takes the rows extractAccumulators of a
\* partial operator produced resolves percentiles_ and accuracy_ equal to the
\* partial operator's.
C23_ResolvesEqual ==
    Received /\ trial.partials = 1 =>
        /\ trial.final.percentiles_ = trial.partial.percentiles_
        /\ trial.final.accuracy_ = trial.partial.accuracy_

\* C23 (as amended): a final operator that takes the rows extractAccumulators
\* of a partial operator produced raises no error on the first operator's rows,
\* skips the null rows, resolves percentiles_ and accuracy_ equal to the partial
\* operator's when some row is not null and stays as it was when every row is
\* null; each of its groups then holds the sum of the n of the non-null rows
\* merged into it, over the outputs of two partial operators the sum of both,
\* unless the second operator's percentiles or accuracy differ from the first's,
\* which raises the error of a non-constant argument.
C23_RoundTrip ==
    Received =>
        LET final == trial.final
            partial == trial.partial
        IN  /\ trial.partials = 1 => final.err = NoErr
            /\ trial.partials = 1 /\ ~SomeRow =>
                   final.percentiles_ = PercentilesUnset
                       /\ final.accuracy_ = kMissingNormalizedValue
            /\ final.err = NoErr /\ SomeRow =>
                   /\ final.percentiles_ = partial.percentiles_
                   /\ partial.accuracy_ # kMissingNormalizedValue =>
                          final.accuracy_ = partial.accuracy_
                   /\ trial.partials = 1 => final.accuracy_ = partial.accuracy_
            /\ final.err = NoErr =>
                   \A g \in Groups : /\ final.groups[g].sketch_.n = trial.merged[g]
                                     /\ final.groups[g].largeCountValues_ = <<>>
            /\ final.err # NoErr =>
                   /\ SomeRow
                   /\ final.err \in {ErrConst, ErrAccConst}
                   /\ final.err = ErrConst => final.percentiles_ # partial.percentiles_
                   /\ final.err = ErrAccConst => final.accuracy_ # partial.accuracy_

\* the outputs of two partial operators, null rows among them, merged into one
\* group that holds a buffered weight and more
C23_Witness ==
    /\ Received
    /\ trial.partials = 2
    /\ trial.final.err = NoErr
    /\ \E i \in DOMAIN trial.result.rows : trial.result.rows[i].null
    /\ SomeRow
    /\ trial.final.accuracy_ # kMissingNormalizedValue
    /\ \E g \in Groups :
          /\ BigLt(BigOf(kMinCountToBuffer), trial.final.groups[g].sketch_.n)
          /\ BigLt(RowsCount(trial.result, trial.glist, FALSE, g, g),
                   trial.final.groups[g].sketch_.n)


\* group g holds something: its sketch counts items or its buffer holds pairs
Holds(g) == groups[g].sketch_.n # Zero \/ groups[g].largeCountValues_ # <<>>

\* C24: no value reaches an accumulator before the percentiles are resolved: in
\* every state, after a call that raised an error too, a group whose sketch
\* counts items or whose buffer holds pairs means that percentiles_ is set, on
\* the raw paths and on the intermediate paths.
C24_ResolvedBeforeValues ==
    (\E g \in Groups : Holds(g)) => percentiles_.set

\* a first call on the intermediate path that merged a view, and a first raw
\* call that stopped at a weight out of range after a row was appended
C24_Witness ==
    /\ steps = 1
    /\ \E g \in Groups : Holds(g)
    /\ \/ last.op \in IntermediateOps
       \/ last.op \in RawOps /\ err = WeightErr


\* C25: a failed percentile resolution leaves the operator unresolved: when a
\* call on an operator whose percentiles_ is unset raises the user error of an
\* empty array, of a null element or of a value below 0 or above 1, percentiles_
\* is still unset afterwards.
C25_FailedUnresolved ==
    [][~percentiles_.set /\ err' \in {ErrEmpty, ErrNull, ErrRange} => ~percentiles_'.set]_vars


\* C26: whenever percentiles_ is set with isArray = false, its value sequence
\* has exactly one element, on whichever path it was resolved, so that the
\* assertion values.size() == 1 of the scalar branch of extractValues holds.
C26_ScalarHasOneValue ==
    percentiles_.set /\ ~percentiles_.isArray => Len(percentiles_.values) = 1


\* what addSingleGroupRawInput makes of the operator and the input in
AsSingle(in) == addSingleGroupRawInput(State, hasWeight_, hasAccuracy_, in.group, in.batch)

\* what addRawInput makes of the same operator and batch with every row mapped
\* to the group of in
AsMulti(in) == addRawInput(State, hasWeight_, hasAccuracy_, ToGroup(in.batch, in.group))

\* C27 as stated: addSingleGroupRawInput(g, rows, args) leaves group g with the
\* same k, sketch contents, buffer and total count, and raises the same errors,
\* as addRawInput with groups[row] = g for all rows, for every batch, the
\* batches whose selected rows all have null values included.
C27_SingleEqualsMulti ==
    CanInput =>
        \A in \in SingleGroupRawInputs[hasWeight_, hasAccuracy_] :
            LET single == AsSingle(in)
                multi == AsMulti(in)
            IN  /\ single.err = multi.err
                /\ single.groups[in.group] = multi.groups[in.group]

\* C27 (as amended): addSingleGroupRawInput raises the same errors and resolves
\* the same percentiles and accuracy as addRawInput with every row mapped to
\* its group, and leaves every group with the same sketch contents, buffer and
\* total count; the groups are the same altogether when some selected row is
\* taken or an argument fails, and when every selected row is skipped the
\* single-group call alone has set the k of its group from the accuracy.
C27_SingleAsMulti ==
    CanInput =>
        \A in \in SingleGroupRawInputs[hasWeight_, hasAccuracy_] :
            LET single == AsSingle(in)
                multi == AsMulti(in)
                g == in.group
            IN  /\ single.err = multi.err
                /\ single.percentiles_ = multi.percentiles_
                /\ single.accuracy_ = multi.accuracy_
                /\ \A h \in Groups : Contents(single.groups[h]) = Contents(multi.groups[h])
                /\ \A h \in Groups : h # g => single.groups[h] = multi.groups[h]
                /\ IF in.d.skippedOnly /\ single.err = NoErr
                   THEN /\ multi.groups = groups
                        /\ single.groups[g] =
                               IF single.accuracy_ # kMissingNormalizedValue
                               THEN setAccuracy(groups[g], single.accuracy_)
                               ELSE groups[g]
                   ELSE single.groups[g] = multi.groups[g]

\* a single-group batch of skipped rows alone has changed the k of its group
\* beside a group that holds values, and a single-group batch has added values
C27_Witness ==
    /\ last.op = "addSingleGroupRawInput"
    /\ steps = 2
    /\ err = NoErr
    /\ accuracy_ # kMissingNormalizedValue
    /\ last.facts.skippedOnly
    /\ groups[last.group].sketch_.k = kFromEpsilon(accuracy_)
    /\ HeldCount(last.group) = Zero
    /\ \E h \in Groups : HeldCount(h) # Zero

====
